---- MODULE Spec2Model ----
(***************************************************************************)
(* Modal-synthesis engine (carstenbund/audio-sim): the polyphonic voice    *)
(* pool (VoiceAllocator / ModalVoice / modal_node) and the coupling        *)
(* topology (TopologyEngine) of the audio-plugin port.                     *)
(*                                                                         *)
(* Numbers.  The code computes in 32-bit floats.  Here every real quantity *)
(* is a fixed-point integer in units of 1/Scale (Scale = 10^4), a complex  *)
(* amplitude is a pair <<re, im>> of such integers, and an angle is a      *)
(* number of quarter turns (0..3), so that e^{i*phase} is an exact lattice *)
(* vector.  Products are rounded toward zero when they shrink a value and  *)
(* away from zero when they grow it, so a decaying mode keeps decaying and *)
(* a growing mode keeps growing, as in the float code.  Values drawn from  *)
(* rand() are nondeterministic choices from small sets.                    *)
(***************************************************************************)
EXTENDS Integers, Sequences, FiniteSets, TLC

\* ------------------------------------------------------------------ bounds
NumVoices == 2        \* max_polyphony given to the constructors (pool size P, matrix N)
MaxGenerations == 1   \* number of topologies generated on one engine
MaxDraws == 1         \* number of random draws that succeed in one generated topology
MaxSoloCalls == 5     \* length of the call sequences explored on a lone voice
RenderFrames == 8     \* frames rendered by one renderAudio call
LoudVelocity == 9     \* least MIDI velocity whose kick exceeds any initial noise
MaxCouplingCalls == 5 \* length of the call sequences explored on a coupled pool
MaxCalls == 8         \* length of the call sequences explored on one pool
MaxTransfers == 2     \* configurations the hub sends
MaxLost == 1          \* frames lost in transit
MaxAltered == 1       \* frames with a byte altered in transit
MaxForeign == 1       \* frames of a sender other than the hub
MaxAgain == 1         \* chunk frames the link delivers a second time
DiscoveryNodes == 2    \* nodes in radio range of the hub
MaxDiscoveries == 2    \* calls of hub_start_discovery
MaxHubHellos == 2      \* HELLO messages the hub receives while it runs sessions
MaxLostHello == 1      \* frames on the air that reach nobody
MaxMidiEvents == 2     \* MIDI note messages the hub reads
MaxPokeTries == 2      \* POKE messages the hub hands to the network manager
MaxReleaseCalls == 4  \* length of the call sequences that strike and release a lone voice
CounterBits == 2       \* width kept of the uint32_t counters age_ and step_count
MaxPokes == 18        \* POKE messages that arrive
MaxDrainPokes == 4    \* POKE messages that arrive at a node whose control task never stops
MaxDrainTicks == 3    \* periods of that control task with an empty queue
MaxTicks == 7         \* periods of the control task
MaxStrikes == 4       \* notes struck on an engine that plays two notes
MaxLoudStrikes == 10  \* notes struck on an engine that plays one note
MaxRenders == 2       \* render calls on the engine
MaxBroadcastCalls == 6 \* calls on a pool whose parameters are set while it plays

\* ------------------------------------------------------- program constants
MAX_MODES == 4
CONTROL_RATE_HZ == 500
MIDI_A4 == 69
FREQ_A4 == 440
DefaultNote == 60     \* midi_note_ of a constructed ModalVoice
MaxMidiNote == 127    \* noteOn / noteOff reject midi_note > 127
MaxVelocity == 127    \* vel_normalized = velocity / 127.0f
DefaultClusterSize == 4
SampleRate == 48000   \* ModalVoice::sample_rate_, the rate the voice is initialized with
NoiseMax == 50        \* modal_node_init: |re|, |im| <= 0.5 * 0.01f, in units of 1/Scale
PokeDurationMs == 10  \* modal_node_apply_poke: duration_ms = 10.0f
PROTOCOL_VERSION == 1
HEADER_SIZE == 8           \* sizeof(message_header_t), packed
CHUNK_DATA_SIZE == 200     \* msg_cfg_chunk_t.data[200], the stride of the chunks
CONFIG_BUFFER_SIZE == 4096 \* g_config_rx.buffer and the hub's config_buffer
MAX_NODES_IN_SESSION == 16
MY_NODE_ID == 0
MAX_REGISTERED_NODES == 16 \* hub_controller.h
MIDI_CHANNEL_DRIVE == 2    \* hub_controller.h: sustained pokes
BROADCAST_ID == 255        \* esp_now_send_message: dest_id == 0xFF
QUEUE_LENGTH == 16         \* xQueueCreate(16, sizeof(poke_event_t))

Scale == 10^4
AmpThreshold == Scale \div 1000   \* ModalVoice::updateState: amp < 0.001f
KickUnit == Scale \div 10         \* modal_node_apply_poke: kick = strength*weight*0.1f
CONTROL_DT_MS == 1000 \div CONTROL_RATE_HZ  \* CONTROL_DT * 1000.0f = 2 ms

Voices == 0..(NumVoices - 1)
Modes == 1..MAX_MODES
\* the notes the environment plays: one more than the pool holds, and one
\* identifier that is out of the MIDI range
Notes == DefaultNote..(DefaultNote + NumVoices)
NoteInputs == Notes \cup {MaxMidiNote + 1}
TopoSizes == {NumVoices, 4, 8, 16}                 \* sizes of the topology engine
Strengths == {(3 * Scale) \div 10, Scale}           \* coupling strengths 0.3 and 1.0
TopoParams == {0, Scale \div 10, Scale}             \* topology parameters 0, 0.1, 1.0
Velocities == {1}            \* MIDI velocities of the notes played on the pool
Phases == 0..3
\* phase draws of one poke / one step, one per mode
PoolPhases == {[k \in Modes |-> k - 1]}
CouplingPhases == {[k \in Modes |-> 0], [k \in Modes |-> 2]}
\* initial noise of modal_node_init, one complex value per mode
PoolNoise == {[k \in Modes |-> <<3, -2>>]}
\* a lone voice: MIDI velocities of its notes, the phase draws of a poke, and
\* initial noise within the range of modal_node_init
Bends == {-1, 1}             \* pitch bends: the wheel at either end
SoloVelocities == {0, 1, LoudVelocity, 100}
SoloPhases == {[k \in Modes |-> 0], [k \in Modes |-> k]}
SoloNoise ==
    {[k \in Modes |-> <<3, -2>>],
     [k \in Modes |-> <<-7, 0>>],
     [k \in Modes |-> <<-NoiseMax, NoiseMax>>]}

\* ------------------------------------------------------ fixed-point helpers
Abs(x) == IF x < 0 THEN -x ELSE x
Sign(x) == IF x < 0 THEN -1 ELSE 1
Min(a, b) == IF a < b THEN a ELSE b

RECURSIVE ISqrtBits(_, _, _)
ISqrtBits(n, r, b) ==
    IF b = 0 THEN r
    ELSE IF (r + b) * (r + b) <= n THEN ISqrtBits(n, r + b, b \div 2)
    ELSE ISqrtBits(n, r, b \div 2)
\* floor of the square root, n < 2^30
ISqrt(n) == ISqrtBits(n, 0, 2^14)

\* x * f / Scale, rounded toward zero when f <= Scale and away from it otherwise
MulFix(x, f) ==
    Sign(x) * ((Abs(x) * f + (IF f > Scale THEN Scale - 1 ELSE 0)) \div Scale)

\* cabsf
cabs_f(z) == ISqrt(z[1] * z[1] + z[2] * z[2])
\* m * cexp_i(phase), phase in quarter turns
cexp_i(m, q) ==
    CASE q % 4 = 0 -> <<m, 0>>
      [] q % 4 = 1 -> <<0, m>>
      [] q % 4 = 2 -> <<-m, 0>>
      [] OTHER -> <<0, -m>>
\* z * e^{i*q*pi/2}
CRot(z, q) ==
    CASE q % 4 = 0 -> z
      [] q % 4 = 1 -> <<-z[2], z[1]>>
      [] q % 4 = 2 -> <<-z[1], -z[2]>>
      [] OTHER -> <<z[2], -z[1]>>
CAdd(z, w) == <<z[1] + w[1], z[2] + w[2]>>
CSub(z, w) == <<z[1] - w[1], z[2] - w[2]>>

\* 2^(s/12) * Scale for s = 0..11
SemitoneRatio ==
    <<10000, 10595, 11225, 11892, 12599, 13348, 14142, 14983, 15874, 16818, 17818, 18877>>
\* midi_to_freq, in tenths of a Hz: 440 * 2^((note - 69) / 12)
midi_to_freq(note) ==
    LET d == note - MIDI_A4
        oct == d \div 12
        base == (FREQ_A4 * 10 * SemitoneRatio[(d % 12) + 1]) \div Scale
    IN  IF oct >= 0 THEN base * 2^oct ELSE base \div 2^(-oct)

\* 0.5 * (1 - cos(pi * t)) * Scale for t = 0, 0.1, ..., 1.0
HannTable == <<0, 245, 955, 2061, 3455, 5000, 6545, 7939, 9045, 9755, 10000>>
\* exp(-x) * Scale for a small x given in units of 1/Scale (second order)
ExpNeg(x) == Scale - x + (x * x) \div (2 * Scale)


\* ------------------------------------------------------------ modal_node.c
\* freq_to_omega: omega = 2*pi*freq; omega is kept in units of 2*pi*0.1 rad/s,
\* i.e. as the frequency in tenths of a Hz
freq_to_omega(freq) == freq
\* omega * CONTROL_DT as a number of quarter turns (nearest), the angle of
\* cexpf(I * omega * CONTROL_DT)
OmegaQuarterTurns(omega) ==
    ((4 * omega + 5 * CONTROL_RATE_HZ) \div (10 * CONTROL_RATE_HZ)) % 4

NoExcitation ==
    [strength |-> 0, duration_ms |-> 0, elapsed_ms |-> 0, phase_hint |-> 0, active |-> FALSE]

\* modal_node_init; noise[k] is the small random amplitude mode k starts with
modal_node_init(personality, noise) ==
    [personality |-> personality,
     modes |-> [k \in Modes |->
                  [a |-> noise[k], omega |-> 0, gamma |-> 0, weight |-> 0, active |-> FALSE]],
     excitation |-> NoExcitation,
     coupling_strength |-> (3 * Scale) \div 10,
     running |-> FALSE,
     step_count |-> 0]

\* modal_node_set_mode; mode_idx is the C index 0..3
modal_node_set_mode(node, mode_idx, omega, gamma, weight) ==
    IF mode_idx >= MAX_MODES THEN node
    ELSE [node EXCEPT !.modes[mode_idx + 1] =
            [@ EXCEPT !.omega = omega, !.gamma = gamma, !.weight = weight, !.active = TRUE]]

modal_node_start(node) == [node EXCEPT !.running = TRUE]
modal_node_stop(node) == [node EXCEPT !.running = FALSE]

\* an envelope that is still active at the step where elapsed reaches duration
StepEnvelope_late(exc) ==
    IF ~exc.active THEN exc
    ELSE LET e == exc.elapsed_ms + CONTROL_DT_MS
         IN  [exc EXCEPT !.elapsed_ms = e, !.active = (e <= exc.duration_ms)]
\* the envelope update at the head of modal_node_step
StepEnvelope(exc) ==
    IF ~exc.active THEN exc
    ELSE LET e == exc.elapsed_ms + CONTROL_DT_MS
         IN  [exc EXCEPT !.elapsed_ms = e, !.active = (e < exc.duration_ms)]

\* the excitation term of one mode times CONTROL_DT; q is the random phase drawn
\* when the hint is negative
ExcitationTerm(exc, mode, q) ==
    IF ~exc.active THEN <<0, 0>>
    ELSE LET envelope == HannTable[((exc.elapsed_ms * 10) \div exc.duration_ms) + 1]
             phase == IF exc.phase_hint < 0 THEN q ELSE exc.phase_hint
             strength == (exc.strength * mode.weight) \div Scale
         IN  cexp_i((((strength * envelope) \div Scale) * CONTROL_DT_MS) \div 1000, phase)

\* gamma_eff of one mode
EffectiveGamma(personality, mode) ==
    IF personality = "SELF_OSCILLATOR"
    THEN LET energy == cabs_f(mode.a)
         IN  -mode.gamma + (3 * mode.gamma * ((energy * energy) \div Scale)) \div Scale
    ELSE mode.gamma

\* one mode of modal_node_step: a * exp(lambda * dt) + excitation * dt
StepMode(personality, exc, mode, q) ==
    IF ~mode.active THEN mode
    ELSE LET lin(f) == CRot(<<MulFix(mode.a[1], f), MulFix(mode.a[2], f)>>,
                            OmegaQuarterTurns(mode.omega))
         IN  \* f, the factor exp(-gamma_eff * dt), is computed once
             CHOOSE m \in {[mode EXCEPT !.a = CAdd(lin(f), ExcitationTerm(exc, mode, q))] :
                             f \in {ExpNeg((EffectiveGamma(personality, mode) * CONTROL_DT_MS)
                                              \div 1000)}} : TRUE

\* modal_node_step; ph[k] is the random phase mode k would draw
modal_node_step(node, ph) ==
    IF ~node.running THEN node
    ELSE LET exc == StepEnvelope(node.excitation)
         IN  [node EXCEPT
                !.excitation = exc,
                !.modes = [k \in Modes |-> StepMode(node.personality, exc, node.modes[k], ph[k])],
                !.step_count = @ + 1]

\* a poke that starts the excitation envelope but kicks no mode
modal_node_apply_poke_nokick(node, poke, ph) ==
    [node EXCEPT
       !.excitation = [strength |-> poke.strength, duration_ms |-> PokeDurationMs,
                       elapsed_ms |-> 0, phase_hint |-> poke.phase_hint, active |-> TRUE]]

\* modal_node_apply_poke; ph[k] is the random phase of mode k's kick
modal_node_apply_poke(node, poke, ph) ==
    [node EXCEPT
       !.excitation = [strength |-> poke.strength, duration_ms |-> PokeDurationMs,
                       elapsed_ms |-> 0, phase_hint |-> poke.phase_hint, active |-> TRUE],
       !.modes = [k \in Modes |->
                    IF ~node.modes[k].active THEN node.modes[k]
                    ELSE LET phase == IF poke.phase_hint < 0 THEN ph[k] ELSE poke.phase_hint
                             kick_strength ==
                                 (((poke.strength * poke.mode_weights[k]) \div Scale) * KickUnit)
                                     \div Scale
                         IN  [node.modes[k] EXCEPT !.a = CAdd(@, cexp_i(kick_strength, phase))]]]

RECURSIVE AmplitudeSum(_, _)
AmplitudeSum(node, k) ==
    IF k = 0 THEN 0
    ELSE AmplitudeSum(node, k - 1)
           + (IF node.modes[k].active
              THEN (cabs_f(node.modes[k].a) * node.modes[k].weight) \div Scale
              ELSE 0)
\* modal_node_get_amplitude
modal_node_get_amplitude(node) == Min(AmplitudeSum(node, MAX_MODES) \div 2, Scale)

modal_node_get_mode0(node) == node.modes[1].a

\* modal_node_reset
modal_node_reset(node) ==
    [node EXCEPT !.modes = [k \in Modes |-> [node.modes[k] EXCEPT !.a = <<0, 0>>]],
                 !.excitation.active = FALSE,
                 !.step_count = 0]

\* ------------------------------------------------------------ ModalVoice.cpp
\* ModalVoice::ModalVoice
NewVoice(noise) ==
    [state |-> "Inactive", midi_note |-> DefaultNote, velocity |-> 0, pitch_bend |-> 0,
     age |-> 0, node |-> modal_node_init("RESONATOR", noise)]

\* ModalVoice::setMode; freq_hz in tenths of a Hz
setMode(voice, mode_idx, freq_hz, damping, weight) ==
    IF mode_idx >= MAX_MODES THEN voice
    ELSE [voice EXCEPT
            !.node = modal_node_set_mode(@, mode_idx, freq_to_omega(freq_hz), damping, weight)]

\* ModalVoice::initialize
VoiceInitialize(voice) ==
    LET base_freq == midi_to_freq(voice.midi_note)
        v0 == setMode(voice, 0, base_freq, Scale \div 2, Scale)
        v1 == setMode(v0, 1, (base_freq * 101) \div 100, (6 * Scale) \div 10, (7 * Scale) \div 10)
        v2 == setMode(v1, 2, base_freq * 2, (8 * Scale) \div 10, Scale \div 2)
        v3 == setMode(v2, 3, base_freq * 3, Scale, (3 * Scale) \div 10)
    IN  [v3 EXCEPT !.node = modal_node_start(@)]

\* ModalVoice::updateFrequencies; pitch_bend is -1, 0 or 1 (full range), so the
\* bend factor 2^(pitch_bend * 2 / 12) is a shift by two semitones
updateFrequencies(voice) ==
    LET base_freq == midi_to_freq(voice.midi_note + 2 * voice.pitch_bend)
        m == voice.node.modes
        v0 == setMode(voice, 0, base_freq, m[1].gamma, m[1].weight)
        v1 == setMode(v0, 1, (base_freq * 101) \div 100, m[2].gamma, m[2].weight)
        v2 == setMode(v1, 2, base_freq * 2, m[3].gamma, m[3].weight)
    IN  setMode(v2, 3, base_freq * 3, m[4].gamma, m[4].weight)

\* ModalVoice::noteOn; velocity is the normalised velocity in units of 1/Scale
VoiceNoteOn(voice, midi_note, velocity, ph) ==
    LET v == updateFrequencies([voice EXCEPT !.midi_note = midi_note, !.velocity = velocity,
                                             !.state = "Attack", !.age = 0])
        poke == [strength |-> velocity, phase_hint |-> -1,
                 mode_weights |-> [k \in Modes |-> Scale]]
    IN  [v EXCEPT !.node = modal_node_apply_poke(@, poke, ph)]

\* ModalVoice::noteOff
VoiceNoteOff(voice) ==
    IF voice.state = "Inactive" THEN voice ELSE [voice EXCEPT !.state = "Release"]

\* ModalVoice::setPitchBend
VoiceSetPitchBend(voice, bend_amount) ==
    updateFrequencies([voice EXCEPT !.pitch_bend = bend_amount])

isActive(voice) == voice.state # "Inactive"

\* ModalVoice::reset
VoiceReset(voice) ==
    [voice EXCEPT !.node = modal_node_reset(@), !.state = "Inactive", !.age = 0]

\* a state machine that leaves Attack after one tick whatever the personality
updateState_always(voice) ==
    CASE voice.state = "Attack" -> [voice EXCEPT !.state = "Sustain"]
      [] voice.state = "Release" ->
           IF modal_node_get_amplitude(voice.node) < AmpThreshold
           THEN VoiceReset([voice EXCEPT !.state = "Inactive"]) ELSE voice
      [] OTHER -> voice
\* ModalVoice::updateState
updateState(voice) ==
    CASE voice.state = "Attack" ->
           IF voice.node.personality = "SELF_OSCILLATOR"
           THEN [voice EXCEPT !.state = "Sustain"] ELSE voice
      [] voice.state = "Release" ->
           IF modal_node_get_amplitude(voice.node) < AmpThreshold
           THEN VoiceReset([voice EXCEPT !.state = "Inactive"]) ELSE voice
      [] OTHER -> voice

\* ModalVoice::updateModal
updateModal(voice, ph) ==
    IF voice.state = "Inactive" THEN voice
    ELSE LET stepped == updateState([voice EXCEPT !.node = modal_node_step(@, ph)])
         IN  [stepped EXCEPT !.age = @ + 1]

\* ModalVoice::setPersonality
VoiceSetPersonality(voice, personality) == [voice EXCEPT !.node.personality = personality]


\* ------------------------------------------------------------ audio_synth.c
Pi == 31416                       \* M_PI in units of 1/Scale
SMOOTH_ALPHA == (12 * Scale) \div 100
MAX_AMPLITUDE_SCALE == (7 * Scale) \div 10
\* the phase accumulator counts 2^-32 turns; its upper 12 bits are kept
PhaseOne == 2^12

\* the product of two numbers in units of 1/Scale, rounded toward zero
Mul(x, y) == Sign(x) * Sign(y) * ((Abs(x) * Abs(y)) \div Scale)

\* atanf on [0, 1]: z * (pi/4 + 0.273 * (1 - z))
AtanUnit(z) == Mul(z, Pi \div 4) + Mul(Mul(z, Scale - z), 2730)
\* cargf, in units of 1/Scale rad
carg_f(z) ==
    LET ax == Abs(z[1])
        ay == Abs(z[2])
        first == IF ax = 0 /\ ay = 0 THEN 0
                 ELSE IF ax >= ay THEN AtanUnit((ay * Scale) \div ax)
                 ELSE Pi \div 2 - AtanUnit((ax * Scale) \div ay)
        upper == IF z[1] < 0 THEN Pi - first ELSE first
    IN  IF z[2] < 0 THEN -upper ELSE upper

\* the two normalising loops of fast_sin
RECURSIVE WrapPhase(_)
WrapPhase(x) ==
    IF x > Pi THEN WrapPhase(x - 2 * Pi)
    ELSE IF x < -Pi THEN WrapPhase(x + 2 * Pi)
    ELSE x
\* fast_sin: x - x^3/6 + x^5/120 after normalising to [-pi, pi]
fast_sin(phase) ==
    LET x == WrapPhase(phase)
        x2 == (x * x) \div Scale
        x3 == (x * (x2 \div 10)) \div (Scale \div 10)
        x5 == ((x3 \div 100) * (x2 \div 10)) \div (Scale \div 1000)
    IN  x - x3 \div 6 + x5 \div 120

\* audio_synth_init
audio_synth_init(sample_rate) ==
    [sample_rate |-> sample_rate, master_gain |-> Scale, muted |-> FALSE,
     phase_accumulator |-> [k \in Modes |-> 0],
     mode_gains |-> [k \in Modes |-> Scale],
     amplitude_smooth |-> [k \in Modes |-> 0],
     node |-> "own",
     initialized |-> TRUE]

\* one mode of one frame of audio_synth_render: the new smoothed amplitude,
\* the new phase accumulator and the mode's sample
RenderMode(synth, mode, k) ==
    LET amplitude_raw == Mul(cabs_f(mode.a), mode.weight)
        smooth == synth.amplitude_smooth[k]
                    + Mul(SMOOTH_ALPHA, amplitude_raw - synth.amplitude_smooth[k])
        gained == Mul(Mul(Mul(smooth, synth.mode_gains[k]), synth.master_gain),
                      MAX_AMPLITUDE_SCALE)
        amplitude == IF gained > MAX_AMPLITUDE_SCALE THEN MAX_AMPLITUDE_SCALE ELSE gained
        phase_inc == (mode.omega * PhaseOne) \div (10 * synth.sample_rate)
        phase == (synth.phase_accumulator[k] * 2 * Pi) \div PhaseOne + carg_f(mode.a)
    IN  [smooth |-> smooth,
         phase_acc |-> (synth.phase_accumulator[k] + phase_inc) % PhaseOne,
         sample |-> Mul(amplitude, fast_sin(phase))]

RECURSIVE SumSamples(_, _)
SumSamples(r, k) == IF k = 0 THEN 0 ELSE SumSamples(r, k - 1) + r[k].sample

\* audio_synth_render: the synth after num_frames more frames, and the frames
\* written to outL (outR receives the same)
RECURSIVE RenderFrom(_, _, _, _)
RenderFrom(synth, node, num_frames, out) ==
    IF num_frames = 0 THEN [synth |-> synth, out |-> out]
    ELSE LET on == {k \in Modes : node.modes[k].active}
             r == [k \in Modes |->
                     IF k \in on THEN RenderMode(synth, node.modes[k], k)
                     ELSE [smooth |-> synth.amplitude_smooth[k],
                           phase_acc |-> synth.phase_accumulator[k], sample |-> 0]]
             next == [synth EXCEPT !.amplitude_smooth = [k \in Modes |-> r[k].smooth],
                                   !.phase_accumulator = [k \in Modes |-> r[k].phase_acc]]
         IN  RenderFrom(next, node, num_frames - 1, Append(out, SumSamples(r, MAX_MODES)))
Silence(num_frames) == [f \in 1..num_frames |-> 0]
\* memory that is not the voice's node and holds a sounding node, as the
\* node of a voice that was deleted while it sounded
StrayNode ==
    VoiceNoteOn(VoiceInitialize(NewVoice([k \in Modes |-> <<0, 0>>])), DefaultNote, Scale,
                [k \in Modes |-> 0]).node
\* the node that synth->node designates: node, the voice's own, once
\* audio_synth_init stored the pointer
SynthNode(synth, node) == IF synth.node = "own" THEN node ELSE StrayNode
\* a render that restarts the phase accumulators with every call
audio_synth_render_restart(synth, node, num_frames) ==
    IF ~synth.initialized \/ synth.node = "null" \/ synth.muted
    THEN [synth |-> synth, out |-> Silence(num_frames)]
    ELSE RenderFrom([synth EXCEPT !.phase_accumulator = [k \in Modes |-> 0]],
                    SynthNode(synth, node), num_frames, <<>>)
\* audio_synth_render
audio_synth_render(synth, node, num_frames) ==
    IF ~synth.initialized \/ synth.node = "null" \/ synth.muted
    THEN [synth |-> synth, out |-> Silence(num_frames)]
    ELSE RenderFrom(synth, SynthNode(synth, node), num_frames, <<>>)

\* ModalVoice::renderAudio
VoiceRenderAudio(voice, synth, num_frames) ==
    IF voice.state = "Inactive" THEN [synth |-> synth, out |-> Silence(num_frames)]
    ELSE audio_synth_render(synth, voice.node, num_frames)

\* ------------------------------------------------------------------- state
VARIABLES
    voices,          \* VoiceAllocator::voices_: voice index -> ModalVoice
    note_to_voice,   \* VoiceAllocator::note_to_voice_: note -> voice index, -1 = none
    pitch_bend,      \* VoiceAllocator::pitch_bend_
    initialized,     \* VoiceAllocator::initialized_
    calls,           \* history: the number of calls made on the pool
    last,            \* history: the last call, what it returned and what it found
    run              \* history: the noteOn calls since initialize, while only noteOn
                     \* calls with distinct notes (and control ticks) were made

VARIABLES
    num_voices,        \* TopologyEngine::num_voices_
    coupling_matrix,   \* TopologyEngine::coupling_matrix_: row -> column -> weight
    coupling_strength, \* TopologyEngine::coupling_strength_
    topology_type,     \* TopologyEngine::topology_type_
    topology_param,    \* TopologyEngine::topology_param_
    generations,       \* history: the number of generateTopology calls made
    reads              \* history: the <<reader, neighbour, amplitude>> triples of
                       \* the mode-0 amplitudes the last updateCoupling read

VARIABLES
    solo,              \* a ModalVoice used on its own
    synth,             \* its audio_synth_t (ModalVoice::synth_)
    out,               \* history: the frames its last renderAudio wrote
    struck             \* history: the velocity of the first noteOn, if the voice was
                       \* initialized before it and nothing but updates and renders
                       \* followed; -2 before any noteOn, -1 otherwise

VARIABLES
    g_config_rx,       \* main.c g_config_rx: the configuration reception state
    g_session,         \* main.c g_session: session_manager_t
    g_node_cfg,        \* main.c g_node: the fields session_apply_to_node writes, each
                       \* float kept as its four bytes
    link,              \* the frames sent to the node and not yet delivered
    acks,              \* history: the status of every CFG_ACK the node sent
    chunks_seen,       \* history: the chunk indices received since the last CFG_BEGIN
    fw,                \* history: what the last delivered frame caused
    used,              \* history: the transfers, link faults and foreign frames so far
    sent,              \* history: the configuration the hub sent last
    build,             \* the source tree session_config.c is built from
    g_poke_queue,      \* main.c g_poke_queue: the queued poke events, oldest first
    g_node,            \* main.c g_node as a modal node
    applied,           \* history: the pokes applied to g_node, in order
    dropped,           \* history: the pokes dropped on a full queue
    progress,          \* history: the POKE messages received, the control periods
                       \* run, what the last step was, and whether a STOP message
                       \* halted the running node since the last START
    g_hub,             \* hub_main.c g_hub: the hub_controller_t
    air,               \* the frames broadcast and not yet received, oldest first
    heard              \* history: the last step of the hub or the radio, the POKE
                       \* messages handed to esp_now_send_message, the MIDI events,
                       \* and the frames lost

VARIABLES
    engine,            \* ModalAttractorsEngine: initialized, master_gain and
                       \* topology_type
    synths,            \* ModalVoice::synth_ of each voice of the pool
    outL,              \* the frames the last render wrote to outL
    outR,              \* the frames the last render wrote to outR
    spent              \* history: the notes struck on the engine, its renders, the
                       \* heap allocations its renders made, and
                       \* the last call made on it

poolVars == <<voices, note_to_voice, pitch_bend, initialized, calls, last, run>>
topoVars == <<num_voices, coupling_matrix, coupling_strength, topology_type,
              topology_param, generations, reads>>
soloVars == <<solo, synth, out, struck>>
cfgVars == <<g_config_rx, g_session, g_node_cfg, link, acks, chunks_seen, fw, used, sent, build>>
pokeVars == <<g_poke_queue, g_node, applied, dropped, progress>>
hubVars == <<g_hub, air, heard>>
fwVars == <<cfgVars, pokeVars, hubVars>>
engVars == <<engine, synths, outL, outR, spent>>
vars == <<poolVars, topoVars, soloVars, fwVars, engVars>>

Personalities == {"RESONATOR", "SELF_OSCILLATOR"}
States == {"Inactive", "Attack", "Sustain", "Release"}

NoCall ==
    [op |-> "none", note |-> -1, ret |-> -1, existing |-> -1,
     free |-> -1, stolen |-> -1, was_init |-> FALSE, trans |-> {}, value |-> "none"]
NoRun == [ok |-> FALSE, calls |-> <<>>]

\* the lifecycle changes between two pools, each tagged with its cause
Changes(before, after, cause) ==
    {<<v, before[v].state, after[v].state, cause>> :
        v \in {u \in Voices : before[u].state # after[u].state}}

\* one more call on the pool, while the explored sequence has room for it
Counted ==
    /\ calls < MaxCalls
    /\ calls' = calls + 1
    /\ UNCHANGED <<topoVars, soloVars, fwVars, engVars>>

\* ------------------------------------------------------- VoiceAllocator.cpp
\* VoiceAllocator::VoiceAllocator
InitPool ==
    /\ voices \in [Voices -> {NewVoice(n) : n \in PoolNoise}]
    /\ note_to_voice = [n \in Notes |-> -1]
    /\ pitch_bend = 0
    /\ initialized = FALSE
    /\ calls = 0
    /\ last = NoCall
    /\ run = NoRun

\* VoiceAllocator::initialize
Initialize ==
    /\ Counted
    /\ voices' = [v \in Voices |-> VoiceInitialize(voices[v])]
    /\ initialized' = TRUE
    /\ last' = [NoCall EXCEPT !.op = "initialize", !.was_init = initialized]
    /\ run' = [ok |-> /\ \A v \in Voices : ~isActive(voices[v])
                      /\ \A n \in Notes : note_to_voice[n] = -1,
               calls |-> <<>>]
    /\ UNCHANGED <<note_to_voice, pitch_bend>>

\* a search that returns the last inactive voice
findFreeVoice_last(vs) ==
    IF \E i \in Voices : ~isActive(vs[i])
    THEN CHOOSE i \in Voices :
            ~isActive(vs[i]) /\ \A j \in (i + 1)..(NumVoices - 1) : isActive(vs[j])
    ELSE -1
\* VoiceAllocator::findFreeVoice: index of the first inactive voice, -1 = nullptr
findFreeVoice(vs) ==
    IF \E i \in Voices : ~isActive(vs[i])
    THEN CHOOSE i \in Voices : ~isActive(vs[i]) /\ \A j \in 0..(i - 1) : isActive(vs[j])
    ELSE -1

RECURSIVE StealLoop(_, _, _, _)
StealLoop(vs, i, max_age, oldest) ==
    IF i >= NumVoices THEN oldest
    ELSE IF isActive(vs[i]) /\ vs[i].age > max_age
         THEN StealLoop(vs, i + 1, vs[i].age, i)
         ELSE StealLoop(vs, i + 1, max_age, oldest)
\* VoiceAllocator::stealOldestVoice: the index it returns (-1 = nullptr); the
\* caller resets that voice
stealOldestVoice(vs) == StealLoop(vs, 0, 0, -1)

\* a noteOn that never finds the note's entry
ExistingVoice_none(map, midi_note) == -1
\* the note's entry as noteOn reads it
ExistingVoice(map, midi_note) == map[midi_note]


\* VoiceAllocator::noteOn
NoteOn(midi_note, velocity, ph) ==
    LET vel_normalized == (velocity * Scale) \div MaxVelocity
        call == [NoCall EXCEPT !.op = "noteOn", !.note = midi_note, !.was_init = initialized]
    IN
    IF ~initialized \/ midi_note > MaxMidiNote
    THEN /\ Counted
         /\ last' = call
         /\ run' = NoRun
         /\ UNCHANGED <<voices, note_to_voice, pitch_bend, initialized>>
    ELSE
    LET existing_voice == ExistingVoice(note_to_voice, midi_note)
        free == findFreeVoice(voices)
        stolen == IF free < 0 THEN stealOldestVoice(voices) ELSE -1
        wasReset == existing_voice < 0 /\ free < 0 /\ stolen >= 0
        voice == IF existing_voice >= 0 THEN existing_voice
                 ELSE IF free >= 0 THEN free ELSE stolen
        afterSteal == IF wasReset
                      THEN [voices EXCEPT ![stolen] = VoiceReset(@)] ELSE voices
        afterOn == IF voice >= 0
                   THEN [afterSteal EXCEPT ![voice] =
                           VoiceSetPitchBend(VoiceNoteOn(@, midi_note, vel_normalized, ph),
                                             pitch_bend)]
                   ELSE afterSteal
    IN  /\ Counted
        /\ voices' = afterOn
        /\ note_to_voice' = IF existing_voice < 0 /\ voice >= 0
                            THEN [note_to_voice EXCEPT ![midi_note] = voice]
                            ELSE note_to_voice
        /\ last' = [call EXCEPT !.ret = voice, !.existing = existing_voice,
                                !.free = IF existing_voice >= 0 THEN -1 ELSE free,
                                !.stolen = IF existing_voice >= 0 THEN -1 ELSE stolen,
                                !.trans = Changes(voices, afterSteal, "reset")
                                            \cup Changes(afterSteal, afterOn, "noteOn")]
        /\ run' = IF run.ok /\ Len(run.calls) <= NumVoices
                       /\ \A i \in 1..Len(run.calls) : run.calls[i][1] # midi_note
                  THEN [run EXCEPT !.calls = Append(@, <<midi_note, voice>>)]
                  ELSE NoRun
        /\ UNCHANGED <<pitch_bend, initialized>>

\* VoiceAllocator::noteOff
NoteOff(midi_note) ==
    LET call == [NoCall EXCEPT !.op = "noteOff", !.was_init = initialized]
    IN
    IF midi_note > MaxMidiNote
    THEN /\ Counted
         /\ last' = call
         /\ run' = NoRun
         /\ UNCHANGED <<voices, note_to_voice, pitch_bend, initialized>>
    ELSE
    LET voice_idx == note_to_voice[midi_note]
        hit == voice_idx >= 0 /\ voice_idx < NumVoices
        after == IF hit THEN [voices EXCEPT ![voice_idx] = VoiceNoteOff(@)] ELSE voices
    IN  /\ Counted
        /\ voices' = after
        /\ note_to_voice' = IF hit THEN [note_to_voice EXCEPT ![midi_note] = -1]
                            ELSE note_to_voice
        /\ last' = IF hit
                   THEN [call EXCEPT !.note = midi_note, !.existing = voice_idx,
                                     !.ret = voice_idx,
                                     !.trans = Changes(voices, after, "noteOff")]
                   ELSE call
        /\ run' = NoRun
        /\ UNCHANGED <<pitch_bend, initialized>>

\* VoiceAllocator::allNotesOff
AllNotesOff ==
    LET after == [v \in Voices |-> IF isActive(voices[v]) THEN VoiceNoteOff(voices[v])
                                   ELSE voices[v]]
    IN  /\ Counted
        /\ voices' = after
        /\ note_to_voice' = [n \in Notes |-> -1]
        /\ last' = [NoCall EXCEPT !.op = "allNotesOff", !.was_init = initialized,
                                  !.trans = Changes(voices, after, "noteOff")]
        /\ run' = NoRun
        /\ UNCHANGED <<pitch_bend, initialized>>

\* VoiceAllocator::setPitchBend
SetPitchBend(bend_amount) ==
    /\ Counted
    /\ pitch_bend' = bend_amount
    /\ voices' = [v \in Voices |-> IF isActive(voices[v])
                                    THEN VoiceSetPitchBend(voices[v], bend_amount)
                                    ELSE voices[v]]
    /\ last' = [NoCall EXCEPT !.op = "setPitchBend", !.was_init = initialized]
    /\ UNCHANGED <<note_to_voice, initialized, run>>

\* a setPersonality that reaches the active voices only
SetPersonality_active(personality) ==
    /\ Counted
    /\ voices' = [v \in Voices |-> IF isActive(voices[v])
                                    THEN VoiceSetPersonality(voices[v], personality)
                                    ELSE voices[v]]
    /\ last' = [NoCall EXCEPT !.op = "setPersonality", !.was_init = initialized,
                              !.value = personality]
    /\ UNCHANGED <<note_to_voice, pitch_bend, initialized, run>>
\* VoiceAllocator::setPersonality
SetPersonality(personality) ==
    /\ Counted
    /\ voices' = [v \in Voices |-> VoiceSetPersonality(voices[v], personality)]
    /\ last' = [NoCall EXCEPT !.op = "setPersonality", !.was_init = initialized,
                              !.value = personality]
    /\ UNCHANGED <<note_to_voice, pitch_bend, initialized, run>>

\* VoiceAllocator::updateVoices; ph holds the random phases a step draws
UpdateVoices(ph) ==
    LET after == [v \in Voices |-> IF isActive(voices[v]) THEN updateModal(voices[v], ph)
                                   ELSE voices[v]]
    IN  /\ Counted
        /\ initialized
        /\ voices' = after
        /\ last' = [NoCall EXCEPT !.op = "updateVoices", !.was_init = initialized,
                                  !.trans = Changes(voices, after, "updateState")]
        /\ UNCHANGED <<note_to_voice, pitch_bend, initialized, run>>

\* ------------------------------------------------------- TopologyEngine.cpp
\* a weight is a fraction <<numerator, denominator>> in lowest terms
RECURSIVE Gcd(_, _)
Gcd(a, b) == IF b = 0 THEN a ELSE Gcd(b, a % b)
Reduce(r) == LET g == Gcd(r[1], r[2]) IN <<r[1] \div g, r[2] \div g>>
RatZero == <<0, 1>>
RatOne == <<1, 1>>
RatHalf == <<1, 2>>
RatAdd(a, b) == Reduce(<<a[1] * b[2] + b[1] * a[2], a[2] * b[2]>>)
RatDiv(a, b) == Reduce(<<a[1] * b[2], a[2] * b[1]>>)
RatPos(a) == a[1] > 0

Rows(n) == 0..(n - 1)
\* TopologyEngine::clearMatrix (and allocateMatrix)
clearMatrix(n) == [i \in Rows(n) |-> [j \in Rows(n) |-> RatZero]]
SetEntry(m, i, j, w) ==
    [r \in DOMAIN m |-> [c \in DOMAIN m[r] |-> IF r = i /\ c = j THEN w ELSE m[r][c]]]

RECURSIVE RowSumFrom(_, _, _)
RowSumFrom(row, j, n) == IF j >= n THEN RatZero ELSE RatAdd(row[j], RowSumFrom(row, j + 1, n))
\* the sum normalizeMatrix forms over one row
RowSum(row, n) == RowSumFrom(row, 0, n)

\* a normalisation that leaves the rows as they were generated
normalizeMatrix_skip(m, n) == m
\* TopologyEngine::normalizeMatrix
normalizeMatrix(m, n) ==
    [i \in Rows(n) |->
        LET sum == RowSum(m[i], n)
        IN  IF RatPos(sum) THEN [j \in Rows(n) |-> RatDiv(m[i][j], sum)] ELSE m[i]]

RECURSIVE RingFrom(_, _, _)
RingFrom(m, i, n) ==
    IF i >= n THEN m
    ELSE LET left == (i - 1 + n) % n
             right == (i + 1) % n
         IN  RingFrom(SetEntry(SetEntry(m, i, left, RatOne), i, right, RatOne), i + 1, n)
\* TopologyEngine::generateRing
generateRing(m, n) == RingFrom(m, 0, n)

\* the outcomes of the test rand_val < prob, rand_val being anywhere in [0, 1],
\* while at most `budget` more draws may succeed
Draws(prob, budget) ==
    {b \in BOOLEAN : IF b THEN prob > 0 /\ budget > 0 ELSE prob <= Scale}

\* the pairs i < j in the order the generators scan them, numbered i * n + j
PairNumbers(n) == {q \in 0..(n * n - 1) : q % n > q \div n}
\* the first pair at or after number p that holds an edge, n * n if none
NextEdge(m, p, n) ==
    LET edges == {q \in PairNumbers(n) : q >= p /\ RatPos(m[q \div n][q % n])}
    IN  IF edges = {} THEN n * n
        ELSE CHOOSE q \in edges : \A r \in edges : q <= r

\* a rewiring that sets the new edge from i to new_target only
Rewire_onesided(m, i, j, new_target) ==
    [r \in DOMAIN m |-> [c \in DOMAIN m[r] |->
        IF new_target # i /\ r = i /\ c = new_target
        THEN RatOne
        ELSE IF (r = i /\ c = j) \/ (r = j /\ c = i) THEN RatZero
        ELSE m[r][c]]]
\* one rewiring of the edge {i, j} to new_target: the old edge is removed in
\* both directions, then the new one is set in both directions
Rewire(m, i, j, new_target) ==
    [r \in DOMAIN m |-> [c \in DOMAIN m[r] |->
        IF new_target # i /\ ((r = i /\ c = new_target) \/ (r = new_target /\ c = i))
        THEN RatOne
        ELSE IF (r = i /\ c = j) \/ (r = j /\ c = i) THEN RatZero
        ELSE m[r][c]]]

\* TopologyEngine::generateSmallWorld, the scan from pair number p on: the set
\* of matrices the random draws can leave (with no draw left to succeed, the
\* rest of the scan keeps every edge)
RECURSIVE SmallWorldFrom(_, _, _, _, _)
SmallWorldFrom(m, p, n, rewire_prob, budget) ==
    LET q == NextEdge(m, p, n)
        i == q \div n
        j == q % n
        kept == IF FALSE \in Draws(rewire_prob, budget)
                THEN IF budget = 0 THEN {m}
                     ELSE SmallWorldFrom(m, q + 1, n, rewire_prob, budget)
                ELSE {}
        rewired == IF TRUE \in Draws(rewire_prob, budget)
                   THEN UNION {SmallWorldFrom(Rewire(m, i, j, new_target), q + 1, n,
                                              rewire_prob, budget - 1)
                               : new_target \in Rows(n)}
                   ELSE {}
    IN  IF q >= n * n THEN {m} ELSE kept \cup rewired
generateSmallWorld(m, n, rewire_prob) ==
    SmallWorldFrom(generateRing(m, n), 0, n, rewire_prob, MaxDraws)

Min2(a, b) == IF a < b THEN a ELSE b
RECURSIVE ClusteredFrom(_, _, _, _)
ClusteredFrom(m, cluster_idx, n, cluster_size) ==
    LET num_clusters == (n + cluster_size - 1) \div cluster_size
        cluster_start == cluster_idx * cluster_size
        cluster_end == Min2(cluster_start + cluster_size, n)
        members == cluster_start..(cluster_end - 1)
        connected == [i \in Rows(n) |-> [j \in Rows(n) |->
                        IF i \in members /\ j \in members /\ i # j THEN RatOne ELSE m[i][j]]]
        next_cluster_start == (cluster_idx + 1) * cluster_size
        linked == IF cluster_idx < num_clusters - 1 /\ next_cluster_start < n
                  THEN SetEntry(SetEntry(connected, cluster_start, next_cluster_start, RatHalf),
                                next_cluster_start, cluster_start, RatHalf)
                  ELSE connected
    IN  IF cluster_idx >= num_clusters THEN m
        ELSE ClusteredFrom(linked, cluster_idx + 1, n, cluster_size)
\* TopologyEngine::generateClustered
generateClustered(m, n, cluster_size) == ClusteredFrom(m, 0, n, cluster_size)

\* TopologyEngine::generateHubSpoke
generateHubSpoke(m, n, hub_idx) ==
    LET hub == IF hub_idx >= n THEN 0 ELSE hub_idx
    IN  [i \in Rows(n) |-> [j \in Rows(n) |->
            IF i # j /\ (i = hub \/ j = hub) THEN RatOne ELSE m[i][j]]]

\* the sets of at most k elements of S
RECURSIVE UpTo(_, _)
UpTo(S, k) ==
    IF k = 0 THEN {{}}
    ELSE LET smaller == UpTo(S, k - 1)
         IN  smaller \cup {E \cup {x} : E \in smaller, x \in S}
\* TopologyEngine::generateRandom: the draws of the pairs are independent, so
\* the matrices it can leave are given by the sets of pairs whose draw succeeds
generateRandom(m, n, connection_prob) ==
    LET chosen == {E \in UpTo(PairNumbers(n), MaxDraws) :
                     /\ E # {} => TRUE \in Draws(connection_prob, MaxDraws)
                     /\ E # PairNumbers(n) => FALSE \in Draws(connection_prob, MaxDraws)}
    IN  {[i \in Rows(n) |-> [j \in Rows(n) |->
            IF i * n + j \in E \/ j * n + i \in E THEN RatOne ELSE m[i][j]]] : E \in chosen}

\* TopologyEngine::generateComplete
generateComplete(m, n) ==
    [i \in Rows(n) |-> [j \in Rows(n) |-> IF i # j THEN RatOne ELSE m[i][j]]]

TopologyTypes ==
    {"Ring", "SmallWorld", "Clustered", "HubSpoke", "Random", "Complete", "None"}

\* the switch of TopologyEngine::generateTopology: the matrices a family can
\* generate from the cleared matrix
Generated(type, n, param) ==
    LET m == clearMatrix(n)
    IN  CASE type = "Ring" -> {generateRing(m, n)}
          [] type = "SmallWorld" -> generateSmallWorld(m, n, param)
          [] type = "Clustered" -> {generateClustered(m, n, DefaultClusterSize)}
          [] type = "HubSpoke" -> {generateHubSpoke(m, n, 0)}
          [] type = "Random" -> generateRandom(m, n, param)
          [] type = "Complete" -> {generateComplete(m, n)}
          [] OTHER -> {m}

\* TopologyEngine::TopologyEngine
InitTopology(n) ==
    /\ num_voices = n
    /\ coupling_matrix = clearMatrix(n)
    /\ coupling_strength = (3 * Scale) \div 10
    /\ topology_type = "None"
    /\ topology_param = Scale \div 10
    /\ generations = 0
    /\ reads = {}

\* TopologyEngine::generateTopology
GenerateTopology(type, strength) ==
    /\ generations < MaxGenerations
    /\ generations' = generations + 1
    /\ \E m \in Generated(type, num_voices, topology_param) :
          coupling_matrix' = normalizeMatrix(m, num_voices)
    /\ topology_type' = type
    /\ coupling_strength' = strength
    /\ UNCHANGED <<num_voices, topology_param, reads, poolVars, soloVars, fwVars, engVars>>

\* TopologyEngine::setCouplingStrength
SetCouplingStrength(strength) ==
    /\ coupling_strength' = strength
    /\ UNCHANGED <<num_voices, coupling_matrix, topology_type, topology_param, generations,
                   reads, poolVars, soloVars, fwVars, engVars>>

\* TopologyEngine::setTopologyParameter
SetTopologyParameter(param) ==
    /\ topology_param' = param
    /\ UNCHANGED <<num_voices, coupling_matrix, coupling_strength, topology_type,
                   generations, reads, poolVars, soloVars, fwVars, engVars>>

\* ModalVoice::getMode0Amplitude
getMode0Amplitude(voice) == modal_node_get_mode0(voice.node)

\* a coupling that forces every active mode with the input of mode 0
applyCoupling_allmodes(voice, coupling_inputs) ==
    [voice EXCEPT !.node.modes = [k \in Modes |->
        IF ~voice.node.modes[k].active THEN voice.node.modes[k]
        ELSE LET strength == MulFix(coupling_inputs[1], voice.node.coupling_strength)
             IN  [voice.node.modes[k] EXCEPT
                    !.a = CAdd(@, <<(strength * CONTROL_DT_MS) \div 1000, 0>>)]]]
\* ModalVoice::applyCoupling; coupling_inputs is indexed by mode, the real
\* number node.coupling_strength * input * CONTROL_DT is added to the amplitude
applyCoupling(voice, coupling_inputs) ==
    [voice EXCEPT !.node.modes = [k \in Modes |->
        IF ~voice.node.modes[k].active THEN voice.node.modes[k]
        ELSE LET strength == MulFix(coupling_inputs[k], voice.node.coupling_strength)
             IN  [voice.node.modes[k] EXCEPT
                    !.a = CAdd(@, <<(strength * CONTROL_DT_MS) \div 1000, 0>>)]]]

\* the neighbours whose amplitude updateCoupling reads for voice i
Neighbours(vs, m, i) ==
    {j \in Voices : j # i /\ isActive(vs[j]) /\ RatPos(m[i][j])}

\* the inner loop of TopologyEngine::updateCoupling: coupling_inputs[0] of voice i
RECURSIVE CouplingInput(_, _, _, _, _)
CouplingInput(vs, m, strength, i, j) ==
    IF j >= NumVoices THEN 0
    ELSE IF j \notin Neighbours(vs, m, i) THEN CouplingInput(vs, m, strength, i, j + 1)
    ELSE LET neighbor_amp == getMode0Amplitude(vs[j])
             self_amp == getMode0Amplitude(vs[i])
             diff == CSub(neighbor_amp, self_amp)
             weighted == (cabs_f(diff) * m[i][j][1]) \div m[i][j][2]
         IN  MulFix(weighted, strength) + CouplingInput(vs, m, strength, i, j + 1)

\* the outer loop of TopologyEngine::updateCoupling from voice i on: each
\* voice is forced from the amplitudes the voices hold when its turn comes;
\* seen collects what was read, as <<reader, neighbour, amplitude>>
RECURSIVE CouplingLoop(_, _, _, _, _)
CouplingLoop(vs, m, strength, i, seen) ==
    IF i >= NumVoices THEN [voices |-> vs, reads |-> seen]
    ELSE IF ~isActive(vs[i]) THEN CouplingLoop(vs, m, strength, i + 1, seen)
    ELSE LET coupling_inputs == [k \in Modes |->
                                   IF k = 1 THEN CouplingInput(vs, m, strength, i, 0) ELSE 0]
             forced == [v \in Voices |->
                          IF v = i THEN applyCoupling(vs[v], coupling_inputs) ELSE vs[v]]
             read == {<<i, j, getMode0Amplitude(vs[j])>> : j \in Neighbours(vs, m, i)}
         IN  CouplingLoop(forced, m, strength, i + 1, seen \cup read)

\* TopologyEngine::updateCoupling, called on the voices of the pool
UpdateCoupling ==
    LET done == IF num_voices # NumVoices THEN [voices |-> voices, reads |-> {}]
                ELSE CouplingLoop(voices, coupling_matrix, coupling_strength, 0, {})
    IN  /\ calls < MaxCouplingCalls
        /\ calls' = calls + 1
        /\ voices' = done.voices
        /\ reads' = done.reads
        /\ last' = [NoCall EXCEPT !.op = "updateCoupling", !.was_init = initialized,
                                  !.value = IF done.voices # voices THEN "forced" ELSE "none"]
        /\ UNCHANGED <<note_to_voice, pitch_bend, initialized, run, num_voices,
                       coupling_matrix, coupling_strength, topology_type, topology_param,
                       generations, soloVars, fwVars, engVars>>

\* ------------------------------------------------------------- lone voice
\* what an audio_synth_t holds before audio_synth_init wrote it: memory that
\* reads as not initialized, or as initialized with a node pointer that is
\* the voice's own node (the memory of a voice deleted at this address) or a
\* stray one
UninitSynths ==
    {[audio_synth_init(SampleRate) EXCEPT !.initialized = FALSE]}
    \cup {[audio_synth_init(SampleRate) EXCEPT !.node = n] : n \in {"own", "stray"}}

\* an audio_synth_t that reads as not initialized
IdleSynth == [audio_synth_init(SampleRate) EXCEPT !.initialized = FALSE]

\* ModalVoice::ModalVoice
InitSolo(noises, synth_memory) ==
    /\ solo \in {NewVoice(n) : n \in noises}
    /\ synth \in synth_memory
    /\ out = <<>>
    /\ struck = -2

\* one more call on the lone voice
SoloCounted ==
    /\ calls < MaxSoloCalls
    /\ calls' = calls + 1
    /\ UNCHANGED <<voices, note_to_voice, pitch_bend, initialized, last, run, topoVars,
                   fwVars, engVars>>

\* ModalVoice::initialize
SoloInitialize(sample_rate) ==
    /\ SoloCounted
    /\ solo' = VoiceInitialize(solo)
    /\ synth' = audio_synth_init(sample_rate)
    /\ struck' = IF struck = -2 THEN -2 ELSE -1
    /\ UNCHANGED out

\* ModalVoice::noteOn; velocity is a MIDI velocity, passed on as velocity / 127
SoloNoteOn(midi_note, velocity, ph) ==
    /\ SoloCounted
    /\ solo' = VoiceNoteOn(solo, midi_note, (velocity * Scale) \div MaxVelocity, ph)
    /\ struck' = IF struck = -2 /\ solo.node.running THEN velocity ELSE -1
    /\ out' = <<>>
    /\ UNCHANGED synth

\* ModalVoice::noteOff
SoloNoteOff ==
    /\ SoloCounted
    /\ solo' = VoiceNoteOff(solo)
    /\ struck' = IF struck = -2 THEN -2 ELSE -1
    /\ UNCHANGED <<synth, out>>

\* ModalVoice::updateModal
SoloUpdateModal(ph) ==
    /\ SoloCounted
    /\ solo' = updateModal(solo, ph)
    /\ UNCHANGED <<synth, out, struck>>

\* ModalVoice::setPersonality
SoloSetPersonality(personality) ==
    /\ SoloCounted
    /\ solo' = VoiceSetPersonality(solo, personality)
    /\ struck' = IF struck = -2 THEN -2 ELSE -1
    /\ UNCHANGED <<synth, out>>

\* age_ and step_count are uint32_t and wrap; the counters are kept at a
\* narrower width
NarrowCounters(voice) ==
    [voice EXCEPT !.age = @ % (2 ^ CounterBits),
                  !.node.step_count = @ % (2 ^ CounterBits)]

\* a tick that steps the node of a releasing voice but never looks at its
\* amplitude
ReleaseTick_deaf(ph) ==
    /\ solo.state = "Release"
    /\ \E stepped \in {modal_node_step(solo.node, ph)} :
          solo' = NarrowCounters([solo EXCEPT !.node = stepped, !.age = @ + 1])
    /\ UNCHANGED <<poolVars, topoVars, synth, out, struck, fwVars, engVars>>
\* one updateVoices tick as a releasing voice sees it: ModalVoice::updateModal,
\* i.e. modal_node_step, then updateState, then age_++
ReleaseTick(ph) ==
    /\ solo.state = "Release"
    /\ \E stepped \in {modal_node_step(solo.node, ph)} :
          solo' = NarrowCounters([updateState([solo EXCEPT !.node = stepped])
                                    EXCEPT !.age = @ + 1])
    /\ UNCHANGED <<poolVars, topoVars, synth, out, struck, fwVars, engVars>>
\* ModalVoice::renderAudio
SoloRenderAudio(num_frames) ==
    LET r == VoiceRenderAudio(solo, synth, num_frames)
    IN  /\ SoloCounted
        /\ synth' = r.synth
        /\ out' = r.out
        /\ UNCHANGED <<solo, struck>>

\* ------------------------------------------------------------- protocol.c
\* a byte image: a function from byte offsets to byte values that lists only
\* the non-zero bytes, every other byte being zero
NoBytes == [p \in {} |-> 0]
Get(b, p) == IF p \in DOMAIN b THEN b[p] ELSE 0
\* the size bytes of b that start at offset, as an image of their own
Slice(b, offset, size) ==
    [q \in {p - offset : p \in {r \in DOMAIN b : r >= offset /\ r < offset + size}} |->
        b[q + offset]]
\* memcpy(dst + offset, src, size)
memcpy(dst, offset, src, size) ==
    [p \in {r \in DOMAIN dst : r < offset \/ r >= offset + size}
             \cup {offset + q : q \in {r \in DOMAIN src : r < size}} |->
        IF p >= offset /\ p < offset + size THEN src[p - offset] ELSE dst[p]]
\* the image b with the byte at offset p set to v
SetByte(b, p, v) ==
    [q \in (DOMAIN b \ {p}) \cup (IF v = 0 THEN {} ELSE {p}) |-> IF q = p THEN v ELSE b[q]]
\* a 32-bit field read at offset p, least significant byte first
Field32(b, p) == <<Get(b, p), Get(b, p + 1), Get(b, p + 2), Get(b, p + 3)>>

RECURSIVE XorBits(_, _, _)
XorBits(a, b, n) ==
    IF n = 0 THEN 0 ELSE ((a + b) % 2) + 2 * XorBits(a \div 2, b \div 2, n - 1)
\* a ^ b on bytes
Xor8 == [a \in 0..255 |-> [b \in 0..255 |-> XorBits(a, b, 8)]]
\* v ^ w on 32-bit words kept as four bytes, least significant first
Xor32(v, w) ==
    <<Xor8[v[1]][w[1]], Xor8[v[2]][w[2]], Xor8[v[3]][w[3]], Xor8[v[4]][w[4]]>>
Zero32 == <<0, 0, 0, 0>>
Ones32 == <<255, 255, 255, 255>>
\* the reflected CRC-32 polynomial 0xEDB88320 the table is built from
CRC_POLY == <<32, 131, 184, 237>>
ShiftRight1(v) ==
    <<v[1] \div 2 + 128 * (v[2] % 2), v[2] \div 2 + 128 * (v[3] % 2),
      v[3] \div 2 + 128 * (v[4] % 2), v[4] \div 2>>
RECURSIVE TableSteps(_, _)
TableSteps(v, n) ==
    IF n = 0 THEN v
    ELSE TableSteps(IF v[1] % 2 = 1 THEN Xor32(ShiftRight1(v), CRC_POLY)
                    ELSE ShiftRight1(v), n - 1)
\* crc32_table[256]
crc32_table == [i \in 0..255 |-> TableSteps(<<i, 0, 0, 0>>, 8)]
\* crc = crc32_table[(crc ^ data[i]) & 0xFF] ^ (crc >> 8)
CrcByte(crc, byte) ==
    LET t == crc32_table[Xor8[crc[1]][byte]]
    IN  <<Xor8[crc[2]][t[1]], Xor8[crc[3]][t[2]], Xor8[crc[4]][t[3]], t[4]>>
\* the loop of protocol_crc32 over data[from..to-1], in order
RECURSIVE CrcRange(_, _, _, _)
CrcRange(crc, data, from, to) ==
    IF to <= from THEN crc
    ELSE IF to = from + 1 THEN CrcByte(crc, Get(data, from))
    ELSE LET mid == (from + to) \div 2
             left == CrcRange(crc, data, from, mid)
         IN  IF left[1] >= 0 THEN CrcRange(left, data, mid, to) ELSE left
\* protocol_crc32
protocol_crc32(data, len) == Xor32(CrcRange(Ones32, data, 0, len), Ones32)

\* sizeof of the packed message structs
SizeOf(type) ==
    CASE type = "CFG_BEGIN" -> HEADER_SIZE + 2 + 1 + 4
      [] type = "CFG_CHUNK" -> HEADER_SIZE + 1 + 1 + CHUNK_DATA_SIZE
      [] type = "CFG_END" -> HEADER_SIZE + 4
      [] type = "CFG_ACK" -> HEADER_SIZE + 1
      [] type = "POKE" -> HEADER_SIZE + 4 + 4 + 4 * MAX_MODES
      [] type = "START" -> HEADER_SIZE + 4
      [] OTHER -> HEADER_SIZE
\* the message types protocol_parse_message has a case for
ParsedTypes == {"HELLO", "POKE", "START", "STOP", "HEARTBEAT", "CFG_BEGIN", "CFG_CHUNK", "CFG_END"}

\* a frame on the air: len is the number of bytes sent, the rest are the
\* fields of the message
Frame(type) ==
    [type |-> type, version |-> PROTOCOL_VERSION, len |-> SizeOf(type),
     total_size |-> 0, num_chunks |-> 0, checksum |-> Zero32,
     chunk_idx |-> 0, chunk_size |-> 0, data |-> NoBytes]
protocol_create_cfg_begin(total_size, num_chunks, checksum) ==
    [Frame("CFG_BEGIN") EXCEPT !.total_size = total_size, !.num_chunks = num_chunks,
                               !.checksum = checksum]
protocol_create_cfg_chunk(chunk_idx, chunk_data, chunk_size) ==
    [Frame("CFG_CHUNK") EXCEPT !.chunk_idx = chunk_idx, !.chunk_size = chunk_size,
                               !.data = Slice(chunk_data, 0, chunk_size)]
protocol_create_cfg_end(checksum) == [Frame("CFG_END") EXCEPT !.checksum = checksum]

\* a parser that accepts every message type of the protocol
protocol_parse_message_any(frame) ==
    /\ frame.len >= HEADER_SIZE
    /\ frame.version = PROTOCOL_VERSION
    /\ frame.len >= SizeOf(frame.type)
\* protocol_parse_message: whether the len bytes received make a message
protocol_parse_message(frame) ==
    /\ frame.len >= HEADER_SIZE
    /\ frame.version = PROTOCOL_VERSION
    /\ frame.type \in ParsedTypes
    /\ frame.len >= SizeOf(frame.type)

\* -------------------------------------------------------- session_config.c
\* session_config_t as the compiler of the 32-bit target lays it out
NodeConfigSize == 80
NodesOffset == 40
NumNodesOffset == 36
SessionConfigSize == NodesOffset + MAX_NODES_IN_SESSION * NodeConfigSize + 16
\* offsets within node_config_t
PersonalityOffset == 4
OmegaOffset == 8
GammaOffset == OmegaOffset + 4 * MAX_MODES
WeightOffset == GammaOffset + 4 * MAX_MODES

SessionStates == <<"IDLE", "DISCOVERING", "CONFIGURING", "READY", "RUNNING", "ERROR">>
StateRank(s) == CHOOSE i \in DOMAIN SessionStates : SessionStates[i] = s

\* session_manager_init
session_manager_init(my_node_id) ==
    [config |-> NoBytes, state |-> "IDLE", my_node_id |-> my_node_id]

\* session_load_config_binary: the firmware tree carries a stub, the
\* firmware-debug tree the implementation
session_load_config_binary(tree, mgr, data, len) ==
    IF tree = "firmware" THEN [ok |-> FALSE, mgr |-> mgr]
    ELSE IF len # SessionConfigSize THEN [ok |-> FALSE, mgr |-> mgr]
    ELSE [ok |-> TRUE,
          mgr |-> [mgr EXCEPT !.config = Slice(data, 0, SessionConfigSize), !.state = "READY"]]

\* session_serialize_config_binary
session_serialize_config_binary(config, max_len) ==
    IF max_len < SessionConfigSize THEN [size |-> 0, data |-> NoBytes]
    ELSE [size |-> SessionConfigSize, data |-> Slice(config, 0, SessionConfigSize)]

\* session_get_my_config: the offset of the first entry with this node's id,
\* -1 for NULL
session_get_my_config(tree, mgr) ==
    IF tree = "firmware" \/ StateRank(mgr.state) < StateRank("READY") THEN -1
    ELSE LET mine == {i \in 0..(Get(mgr.config, NumNodesOffset) - 1) :
                         Get(mgr.config, NodesOffset + i * NodeConfigSize) = mgr.my_node_id}
         IN  IF mine = {} THEN -1
             ELSE NodesOffset + NodeConfigSize * (CHOOSE i \in mine : \A j \in mine : i <= j)

\* session_apply_to_node
session_apply_to_node(tree, mgr, node) ==
    LET config == session_get_my_config(tree, mgr)
    IN  IF config < 0 THEN [ok |-> FALSE, node |-> node]
        ELSE [ok |-> TRUE,
              node |-> [personality |-> Field32(mgr.config, config + PersonalityOffset),
                        omega |-> [i \in 0..(MAX_MODES - 1) |->
                                     Field32(mgr.config, config + OmegaOffset + 4 * i)],
                        gamma |-> [i \in 0..(MAX_MODES - 1) |->
                                     Field32(mgr.config, config + GammaOffset + 4 * i)],
                        weight |-> [i \in 0..(MAX_MODES - 1) |->
                                      Field32(mgr.config, config + WeightOffset + 4 * i)]]]

\* ------------------------------------------------------- hub_controller.c
\* hub_send_config: the frames the hub sends for one configuration, in order;
\* each chunk frame is sent with the header, the two chunk fields and the
\* bytes of this chunk only
hub_send_config(config) ==
    LET ser == session_serialize_config_binary(config, CONFIG_BUFFER_SIZE)
        config_size == ser.size
        num_chunks == ((config_size + CHUNK_DATA_SIZE - 1) \div CHUNK_DATA_SIZE) % 256
        checksum == protocol_crc32(ser.data, config_size)
        chunk(i) ==
            LET offset == i * CHUNK_DATA_SIZE
                this_chunk_size == IF offset + CHUNK_DATA_SIZE > config_size
                                   THEN config_size - offset ELSE CHUNK_DATA_SIZE
            IN  [protocol_create_cfg_chunk(i, Slice(ser.data, offset, this_chunk_size),
                                           this_chunk_size)
                   EXCEPT !.len = HEADER_SIZE + 2 + this_chunk_size]
    IN  IF config_size = 0 THEN <<>>
        ELSE <<protocol_create_cfg_begin(config_size, num_chunks, checksum)>>
             \o [i \in 1..num_chunks |-> chunk(i - 1)]
             \o <<protocol_create_cfg_end(checksum)>>

\* ------------------------------------------------------------------ main.c
\* the parameters system_init gives g_node: four modes at 440, 442, 880 and
\* 55 Hz, each float as its bytes
InitNodeParams ==
    [personality |-> Zero32,
     omega |-> [i \in 0..(MAX_MODES - 1) |->
                  <<<<160, 201, 44, 69>>, <<176, 146, 45, 69>>,
                    <<160, 201, 172, 69>>, <<160, 201, 172, 67>>>>[i + 1]],
     gamma |-> [i \in 0..(MAX_MODES - 1) |->
                  <<<<0, 0, 0, 63>>, <<154, 153, 25, 63>>,
                    <<0, 0, 128, 63>>, <<205, 204, 204, 61>>>>[i + 1]],
     weight |-> [i \in 0..(MAX_MODES - 1) |->
                   <<<<0, 0, 128, 63>>, <<205, 204, 76, 63>>,
                     <<154, 153, 153, 62>>, <<0, 0, 0, 63>>>>[i + 1]]]

\* g_config_rx zeroed, as static storage starts and as CFG_BEGIN's memset leaves it
NoReception ==
    [buffer |-> NoBytes, total_size |-> 0, num_chunks |-> 0, chunks_received |-> 0,
     expected_checksum |-> Zero32, receiving |-> FALSE, chunk_bitmap |-> {}]

NoEvent == [event |-> "none", ack |-> -1, loaded |-> FALSE, applied |-> FALSE, idx |-> -1]
Handled(rx, session, node, ev) == [rx |-> rx, session |-> session, node |-> node, ev |-> ev]

\* case MSG_CFG_BEGIN
CfgBegin(msg, rx, session, node) ==
    Handled([NoReception EXCEPT !.total_size = msg.total_size, !.num_chunks = msg.num_chunks,
                                !.expected_checksum = msg.checksum, !.receiving = TRUE],
            session, node, [NoEvent EXCEPT !.event = "begin"])

\* a chunk handler that stores and counts a chunk index it already holds
CfgChunk_recount(msg, rx, session, node) ==
    LET chunk_idx == msg.chunk_idx
        chunk_size == msg.chunk_size
        offset == chunk_idx * CHUNK_DATA_SIZE
        ev == [NoEvent EXCEPT !.idx = chunk_idx]
    IN  IF ~rx.receiving THEN Handled(rx, session, node, [ev EXCEPT !.event = "no_begin"])
        ELSE IF offset + chunk_size <= CONFIG_BUFFER_SIZE
        THEN Handled([rx EXCEPT !.buffer = memcpy(rx.buffer, offset, msg.data, chunk_size),
                                !.chunk_bitmap = @ \cup {chunk_idx},
                                !.chunks_received = (@ + 1) % 256],
                     session, node, [ev EXCEPT !.event = "chunk"])
        ELSE Handled(rx, session, node, [ev EXCEPT !.event = "too_far"])
\* case MSG_CFG_CHUNK
CfgChunk(msg, rx, session, node) ==
    LET chunk_idx == msg.chunk_idx
        chunk_size == msg.chunk_size
        offset == chunk_idx * CHUNK_DATA_SIZE
        ev == [NoEvent EXCEPT !.idx = chunk_idx]
    IN  IF ~rx.receiving THEN Handled(rx, session, node, [ev EXCEPT !.event = "no_begin"])
        ELSE IF chunk_idx \in rx.chunk_bitmap
        THEN Handled(rx, session, node, [ev EXCEPT !.event = "duplicate"])
        ELSE IF offset + chunk_size <= CONFIG_BUFFER_SIZE
        THEN Handled([rx EXCEPT !.buffer = memcpy(rx.buffer, offset, msg.data, chunk_size),
                                !.chunk_bitmap = @ \cup {chunk_idx},
                                !.chunks_received = (@ + 1) % 256],
                     session, node, [ev EXCEPT !.event = "chunk"])
        ELSE Handled(rx, session, node, [ev EXCEPT !.event = "too_far"])

\* case MSG_CFG_END
CfgEnd(tree, msg, rx, session, node) ==
    LET done == [rx EXCEPT !.receiving = FALSE]
        ev == [NoEvent EXCEPT !.event = "end"]
    IN  IF ~rx.receiving THEN Handled(rx, session, node, [NoEvent EXCEPT !.event = "no_begin"])
        ELSE IF rx.chunks_received # rx.num_chunks
        THEN Handled(done, session, node, [ev EXCEPT !.ack = 1])
        ELSE IF protocol_crc32(rx.buffer, rx.total_size) # rx.expected_checksum
        THEN Handled(done, session, node, [ev EXCEPT !.ack = 2])
        ELSE LET load == session_load_config_binary(tree, session, rx.buffer, rx.total_size)
                 apply == session_apply_to_node(tree, load.mgr, node)
             IN  IF ~load.ok THEN Handled(done, session, node, ev)
                 ELSE IF ~apply.ok
                 THEN Handled(done, load.mgr, node, [ev EXCEPT !.loaded = TRUE])
                 ELSE Handled(done, load.mgr, apply.node,
                              [ev EXCEPT !.loaded = TRUE, !.applied = TRUE, !.ack = 0])

\* on_network_message_received, the configuration cases
on_network_message_received(tree, msg, rx, session, node) ==
    CASE msg.type = "CFG_BEGIN" -> CfgBegin(msg, rx, session, node)
      [] msg.type = "CFG_CHUNK" -> CfgChunk(msg, rx, session, node)
      [] msg.type = "CFG_END" -> CfgEnd(tree, msg, rx, session, node)
      [] OTHER -> Handled(rx, session, node, [NoEvent EXCEPT !.event = "unhandled"])

\* esp_now_recv_cb: a frame is parsed and, when it parses, handled
esp_now_recv_cb(frame) ==
    LET r == IF protocol_parse_message(frame)
             THEN on_network_message_received(build, frame, g_config_rx, g_session, g_node_cfg)
             ELSE Handled(g_config_rx, g_session, g_node_cfg,
                          [NoEvent EXCEPT !.event = "rejected"])
    IN  /\ g_config_rx' = r.rx
        /\ g_session' = r.session
        /\ g_node_cfg' = r.node
        /\ fw' = r.ev
        /\ acks' = IF r.ev.ack >= 0 THEN Append(acks, r.ev.ack) ELSE acks
        /\ chunks_seen' = CASE r.ev.event = "begin" -> {}
                     [] r.ev.idx >= 0 /\ r.ev.event # "no_begin" -> chunks_seen \cup {r.ev.idx}
                     [] OTHER -> chunks_seen
        /\ UNCHANGED <<build, sent, poolVars, topoVars, soloVars, pokeVars, hubVars, engVars>>

\* the configurations the hub sends: one that names this node as its first
\* entry, a resonator with omega[0] = 1.0f, one that names only node 3, and one
\* whose last chunk carries a non-zero global coupling
ConfigMine ==
    (NumNodesOffset :> 1) @@ (NodesOffset + OmegaOffset + 2 :> 128)
        @@ (NodesOffset + OmegaOffset + 3 :> 63)
ConfigOther == SetByte(ConfigMine, NodesOffset, 3)
ConfigCoupled ==
    ConfigMine @@ (SessionConfigSize - 14 :> 128) @@ (SessionConfigSize - 13 :> 63)
Configs == {ConfigMine, ConfigOther, ConfigCoupled}
HubFrames == [c \in Configs |-> hub_send_config(c)]

\* full-size chunk frames of another sender: a chunk of zeros at the index of
\* the last chunk of a session configuration and at the index after it
ZeroChunk(idx) ==
    [protocol_create_cfg_chunk(idx, NoBytes, CHUNK_DATA_SIZE) EXCEPT !.len = SizeOf("CFG_CHUNK")]
ForeignFrames == {ZeroChunk(SessionConfigSize \div CHUNK_DATA_SIZE),
                  ZeroChunk(SessionConfigSize \div CHUNK_DATA_SIZE + 1)}
\* the offsets within a chunk at which a byte is altered in transit, and the
\* bits flipped in it
AlteredOffsets == {0, NodesOffset + OmegaOffset + 2}
AlteredBits == {1}

\* the hub sends one configuration, the frames of the one before being off
\* the air
HubSendConfig(c) ==
    /\ used.transfers < MaxTransfers
    /\ link = <<>>
    /\ link' = link \o HubFrames[c]
    /\ sent' = c
    /\ used' = [used EXCEPT !.transfers = @ + 1]
    /\ fw' = NoEvent
    /\ g_hub' = [g_hub EXCEPT !.state = "READY",
                          !.nodes = [i \in DOMAIN @ |-> [@[i] EXCEPT !.configured = TRUE]]]
    /\ heard' = [heard EXCEPT !.op = "send_config"]
    /\ UNCHANGED <<build, g_config_rx, g_session, g_node_cfg, acks, chunks_seen, air,
                   poolVars, topoVars, soloVars, pokeVars, engVars>>

\* the oldest frame in flight reaches the node
Receive ==
    /\ link # <<>>
    /\ esp_now_recv_cb(Head(link))
    /\ link' = Tail(link)
    /\ UNCHANGED used

\* the oldest frame in flight is lost
Lose ==
    /\ link # <<>>
    /\ used.lost < MaxLost
    /\ link' = Tail(link)
    /\ used' = [used EXCEPT !.lost = @ + 1]
    /\ fw' = NoEvent
    /\ UNCHANGED <<build, sent, g_config_rx, g_session, g_node_cfg, acks, chunks_seen,
                   poolVars, topoVars, soloVars, pokeVars, hubVars, engVars>>

\* one byte of the oldest chunk in flight is altered
Alter(p, bits) ==
    /\ link # <<>>
    /\ Head(link).type = "CFG_CHUNK"
    /\ p < Head(link).chunk_size
    /\ used.altered < MaxAltered
    /\ link' = <<[Head(link) EXCEPT !.data = SetByte(@, p, Xor8[Get(@, p)][bits])]>>
                 \o Tail(link)
    /\ used' = [used EXCEPT !.altered = @ + 1]
    /\ fw' = NoEvent
    /\ UNCHANGED <<build, sent, g_config_rx, g_session, g_node_cfg, acks, chunks_seen,
                   poolVars, topoVars, soloVars, pokeVars, hubVars, engVars>>

\* the oldest chunk in flight reaches the node and stays in flight: the link
\* delivers it again later
Duplicate ==
    /\ link # <<>>
    /\ Head(link).type = "CFG_CHUNK"
    /\ used.again < MaxAgain
    /\ esp_now_recv_cb(Head(link))
    /\ used' = [used EXCEPT !.again = @ + 1]
    /\ UNCHANGED link

\* a frame of another sender reaches the node
PeerSend(frame) ==
    /\ used.foreign < MaxForeign
    /\ esp_now_recv_cb(frame)
    /\ used' = [used EXCEPT !.foreign = @ + 1]
    /\ UNCHANGED link

InitConfig ==
    /\ g_config_rx = NoReception
    /\ g_session = session_manager_init(MY_NODE_ID)
    /\ g_node_cfg = InitNodeParams
    /\ link = <<>>
    /\ acks = <<>>
    /\ chunks_seen = {}
    /\ fw = NoEvent
    /\ used = [transfers |-> 0, lost |-> 0, altered |-> 0, foreign |-> 0, again |-> 0]
    /\ sent = NoBytes

\* ------------------------------------------------------- main.c, poke queue
\* a send that makes room on a full queue by discarding the oldest item
xQueueSend_overwrite(queue, item) ==
    IF Len(queue) < QUEUE_LENGTH THEN [ok |-> TRUE, queue |-> Append(queue, item)]
    ELSE [ok |-> TRUE, queue |-> Append(Tail(queue), item)]
\* a receive that leaves the item at the front of the queue
xQueueReceive_peek(queue) ==
    IF queue = <<>> THEN [ok |-> FALSE, item |-> <<>>, queue |-> queue]
    ELSE [ok |-> TRUE, item |-> Head(queue), queue |-> queue]
\* xQueueSend with a zero wait: the item goes to the back of the queue, or the
\* call returns errQUEUE_FULL at once and the queue is as it was
xQueueSend(queue, item) ==
    IF Len(queue) < QUEUE_LENGTH THEN [ok |-> TRUE, queue |-> Append(queue, item)]
    ELSE [ok |-> FALSE, queue |-> queue]
\* xQueueReceive with a zero wait: the item at the front, or errQUEUE_EMPTY
xQueueReceive(queue) ==
    IF queue = <<>> THEN [ok |-> FALSE, item |-> <<>>, queue |-> queue]
    ELSE [ok |-> TRUE, item |-> Head(queue), queue |-> Tail(queue)]

\* g_node after system_init: a resonator with modes at 440, 442, 880 and 55 Hz
InitNode ==
    LET n0 == modal_node_init("RESONATOR", [k \in Modes |-> <<3, -2>>])
        n1 == modal_node_set_mode(n0, 0, freq_to_omega(4400), Scale \div 2, Scale)
        n2 == modal_node_set_mode(n1, 1, freq_to_omega(4420), (6 * Scale) \div 10,
                                  (8 * Scale) \div 10)
        n3 == modal_node_set_mode(n2, 2, freq_to_omega(8800), Scale, (3 * Scale) \div 10)
    IN  modal_node_set_mode(n3, 3, freq_to_omega(550), Scale \div 10, Scale \div 2)

\* the POKE messages that arrive: full strength or half, phase hint 0, all modes
PokeMessages ==
    {[type |-> "POKE", version |-> PROTOCOL_VERSION, len |-> SizeOf("POKE"),
      source_id |-> 1, strength |-> s, phase_hint |-> 0,
      mode_weights |-> [k \in Modes |-> Scale]] : s \in {Scale}}
\* the random phases modal_node_apply_poke would draw for a negative hint
PokePhases == [k \in Modes |-> 0]

\* esp_now_recv_cb with a POKE message: on_network_message_received, case
\* MSG_POKE; the event carries the arrival number of its message
RecvPoke(msg) ==
    /\ progress.pokes < MaxPokes
    /\ protocol_parse_message(msg)
    /\ LET poke == [source_node_id |-> msg.source_id, strength |-> msg.strength,
                    phase_hint |-> msg.phase_hint, mode_weights |-> msg.mode_weights,
                    id |-> progress.pokes + 1]
           send == xQueueSend(g_poke_queue, poke)
       IN  /\ g_poke_queue' = send.queue
           /\ dropped' = IF send.ok THEN dropped ELSE dropped \cup {poke.id}
    /\ progress' = [progress EXCEPT !.pokes = @ + 1, !.last = "poke"]
    /\ UNCHANGED <<g_node, applied, poolVars, topoVars, soloVars, cfgVars, hubVars, engVars>>

\* session_start
session_start(mgr) == [mgr EXCEPT !.state = "RUNNING"]

\* esp_now_recv_cb with a START message: case MSG_START
RecvStart ==
    /\ ~g_node.running
    /\ protocol_parse_message(Frame("START"))
    /\ g_session' = session_start(g_session)
    /\ g_node' = modal_node_start(g_node)
    /\ progress' = [progress EXCEPT !.last = "start", !.halted = FALSE]
    /\ UNCHANGED <<g_poke_queue, applied, dropped, poolVars, topoVars, soloVars,
                   g_config_rx, g_node_cfg, link, acks, chunks_seen, fw, used, sent, build,
                   hubVars, engVars>>

\* session_stop
session_stop(mgr) == [mgr EXCEPT !.state = "IDLE"]

\* esp_now_recv_cb with a STOP message: case MSG_STOP
RecvStop ==
    /\ protocol_parse_message(Frame("STOP"))
    /\ g_session' = session_stop(g_session)
    /\ g_node' = modal_node_stop(g_node)
    /\ progress' = [progress EXCEPT !.last = "stop", !.halted = g_node.running]
    /\ UNCHANGED <<g_poke_queue, applied, dropped, poolVars, topoVars, soloVars,
                   g_config_rx, g_node_cfg, link, acks, chunks_seen, fw, used, sent, build,
                   hubVars, engVars>>

\* esp_now_recv_cb with a RESET message: the frame reaches case MSG_RESET only
\* if protocol_parse_message accepts it, else it is dropped
RecvReset ==
    /\ g_node' = IF protocol_parse_message(Frame("RESET")) THEN modal_node_reset(g_node)
                 ELSE g_node
    /\ progress' = [progress EXCEPT
                      !.last = IF protocol_parse_message(Frame("RESET")) THEN "reset"
                               ELSE "rejected"]
    /\ UNCHANGED <<g_poke_queue, applied, dropped, poolVars, topoVars, soloVars, cfgVars, hubVars,
                   engVars>>

\* a control period that does nothing while the node is stopped
ControlPeriod_running ==
    /\ LET recv == xQueueReceive(g_poke_queue)
           poked == IF recv.ok THEN modal_node_apply_poke(g_node, recv.item, PokePhases)
                    ELSE g_node
       IN  IF g_node.running
           THEN /\ g_poke_queue' = recv.queue
                /\ g_node' = modal_node_step(poked, PokePhases)
                /\ applied' = IF recv.ok THEN Append(applied, recv.item.id) ELSE applied
                /\ progress' = [progress EXCEPT !.ticks = @ + 1, !.last = "tick"]
           ELSE /\ progress' = [progress EXCEPT !.last = "tick"]
                /\ UNCHANGED <<g_poke_queue, g_node, applied>>
    /\ UNCHANGED <<dropped, poolVars, topoVars, soloVars, cfgVars, hubVars, engVars>>
\* the body of control_task's loop: at most one poke is taken from the queue
\* and applied, then the node is stepped if it runs
ControlPeriod ==
    /\ LET recv == xQueueReceive(g_poke_queue)
           poked == IF recv.ok THEN modal_node_apply_poke(g_node, recv.item, PokePhases)
                    ELSE g_node
       IN  /\ g_poke_queue' = recv.queue
           /\ g_node' = IF poked.running THEN modal_node_step(poked, PokePhases) ELSE poked
           /\ applied' = IF recv.ok THEN Append(applied, recv.item.id) ELSE applied
    /\ progress' = [progress EXCEPT !.ticks = @ + 1, !.last = "tick"]
    /\ UNCHANGED <<dropped, poolVars, topoVars, soloVars, cfgVars, hubVars, engVars>>

\* one period of control_task
ControlTask ==
    /\ progress.ticks < MaxTicks
    /\ ControlPeriod

\* one period of a control task that never stops while a poke is queued
ControlTaskDraining ==
    /\ progress.ticks < MaxDrainTicks \/ g_poke_queue # <<>>
    /\ ControlPeriod

InitPoke ==
    /\ g_poke_queue = <<>>
    /\ g_node = InitNode
    /\ applied = <<>>
    /\ dropped = {}
    /\ progress = [pokes |-> 0, ticks |-> 0, last |-> "none", halted |-> FALSE]

\* ------------------------------------------- hub_controller.c, hub_main.c
HubStates == {"IDLE", "DISCOVERING", "CONFIGURING", "READY", "RUNNING", "ERROR"}
\* the nodes in radio range of the hub, each named by its MAC address
NodeMacs == 1..DiscoveryNodes
HubNotes == DefaultNote..(DefaultNote + 1)
MidiChannels == {1, MIDI_CHANNEL_DRIVE}
NoNote == [active |-> FALSE, channel |-> 0, velocity |-> 0, target_node |-> 0]
HelloFrame(src) == [type |-> "HELLO", src |-> src]

\* esp_now_manager_init clears the peer table and esp_now_add_peer is a stub
\* that adds nothing: the table of the manager stays empty
ManagerPeers == {}
\* esp_now_send_message: TRUE when the frame leaves, i.e. for a broadcast or a
\* destination found in the peer table
esp_now_send_message(peers, dest_id) == dest_id = BROADCAST_ID \/ dest_id \in peers

\* hub_note_to_node
hub_note_to_node(note, num_nodes) == IF num_nodes = 0 THEN 0 ELSE note % num_nodes

\* a hub that sends a poke in whatever state it is
hub_send_midi_poke_anystate(s, note) ==
    [hub |-> [s.hub EXCEPT !.pokes_sent =
                 @ + (IF esp_now_send_message(ManagerPeers, note.target_node) THEN 1 ELSE 0)],
     tries |-> s.tries + 1]
\* hub_send_midi_poke; s holds the hub and the number of POKE messages handed
\* to esp_now_send_message so far
hub_send_midi_poke(s, note) ==
    IF s.hub.state # "RUNNING" THEN s
    ELSE [hub |-> [s.hub EXCEPT !.pokes_sent =
                     @ + (IF esp_now_send_message(ManagerPeers, note.target_node) THEN 1 ELSE 0)],
          tries |-> s.tries + 1]

\* hub_register_node
hub_register_node(h, node_id, mac) ==
    IF Len(h.nodes) >= MAX_REGISTERED_NODES THEN h
    ELSE [h EXCEPT !.nodes = Append(@, [node_id |-> node_id, mac_address |-> mac,
                                        configured |-> FALSE, running |-> FALSE])]

\* a hub that registers a MAC address once
hub_handle_hello_once(h, mac) ==
    IF \E i \in 1..Len(h.nodes) : h.nodes[i].mac_address = mac THEN h
    ELSE hub_register_node(h, Len(h.nodes), mac)
\* hub_handle_hello; the OFFER it sends is addressed by node id and never
\* leaves, the peer table being empty
hub_handle_hello(h, mac) == hub_register_node(h, Len(h.nodes), mac)

\* the loop of hub_process_drive_notes over the notes from..to
RECURSIVE DriveNotes(_, _, _)
DriveNotes(s, from, to) ==
    IF from > to THEN s
    ELSE LET note == s.hub.active_notes[from]
         IN  DriveNotes(IF note.active /\ note.channel = MIDI_CHANNEL_DRIVE
                        THEN hub_send_midi_poke(s, note) ELSE s,
                        from + 1, to)

HubIdle == UNCHANGED <<poolVars, topoVars, soloVars, cfgVars, pokeVars, engVars>>

\* hub_start_discovery
HubStartDiscovery ==
    /\ g_hub.discovery_attempts < MaxDiscoveries
    /\ g_hub' = [g_hub EXCEPT !.state = "DISCOVERING", !.discovery_attempts = @ + 1]
    /\ air' = Append(air, HelloFrame(0))
    /\ heard' = [heard EXCEPT !.op = "start_discovery"]
    /\ HubIdle

\* the answers of the nodes that receive a HELLO frame of src: the HELLO case
\* of a node's on_network_message_received, a HELLO broadcast of its own
RECURSIVE NodeAnswers(_, _)
NodeAnswers(src, mac) ==
    IF mac > DiscoveryNodes THEN <<>>
    ELSE (IF mac = src THEN <<>> ELSE <<HelloFrame(mac)>>) \o NodeAnswers(src, mac + 1)

\* the oldest frame on the air reaches every station but its sender: each node
\* runs its handler, and the hub runs hub_handle_hello on a node's HELLO
Deliver ==
    /\ air # <<>>
    /\ g_hub' = IF Head(air).src = 0 THEN g_hub ELSE hub_handle_hello(g_hub, Head(air).src)
    /\ air' = Tail(air) \o NodeAnswers(Head(air).src, 1)
    /\ heard' = [heard EXCEPT !.op = "deliver"]
    /\ HubIdle

\* the MSG_HELLO case of the hub's on_network_message_received
HubRecvHello(mac) ==
    /\ Len(g_hub.nodes) < MaxHubHellos
    /\ g_hub' = hub_handle_hello(g_hub, mac)
    /\ heard' = [heard EXCEPT !.op = "hello"]
    /\ UNCHANGED air
    /\ HubIdle

\* the oldest frame on the air reaches nobody
LoseHello ==
    /\ air # <<>>
    /\ heard.lost < MaxLostHello
    /\ air' = Tail(air)
    /\ heard' = [heard EXCEPT !.op = "lose", !.lost = @ + 1]
    /\ UNCHANGED g_hub
    /\ HubIdle

\* hub_start_session
HubStartSession ==
    /\ g_hub' = IF g_hub.state # "READY" THEN g_hub
              ELSE [g_hub EXCEPT !.state = "RUNNING",
                               !.nodes = [i \in DOMAIN @ |-> [@[i] EXCEPT !.running = TRUE]]]
    /\ heard' = [heard EXCEPT !.op = "start_session"]
    /\ UNCHANGED air
    /\ HubIdle

\* hub_stop_session
HubStopSession ==
    /\ g_hub' = IF g_hub.state # "RUNNING" THEN g_hub
              ELSE [g_hub EXCEPT !.state = "READY",
                               !.nodes = [i \in DOMAIN @ |-> [@[i] EXCEPT !.running = FALSE]]]
    /\ heard' = [heard EXCEPT !.op = "stop_session"]
    /\ UNCHANGED air
    /\ HubIdle

\* hub_midi_note_on
HubMidiNoteOn(note, velocity, channel) ==
    LET midi_note == [active |-> TRUE, channel |-> channel, velocity |-> velocity,
                      target_node |-> hub_note_to_node(note, Len(g_hub.nodes))]
        s == hub_send_midi_poke(
                 [hub |-> [g_hub EXCEPT !.active_notes[note] = midi_note, !.num_active = @ + 1],
                  tries |-> heard.poke_tries], midi_note)
    IN  /\ heard.midi < MaxMidiEvents
        /\ g_hub' = s.hub
        /\ heard' = [heard EXCEPT !.op = "note_on", !.poke_tries = s.tries, !.midi = @ + 1]
        /\ UNCHANGED air
        /\ HubIdle

\* hub_midi_note_off
HubMidiNoteOff(note) ==
    /\ heard.midi < MaxMidiEvents
    /\ g_hub' = IF ~g_hub.active_notes[note].active THEN g_hub
              ELSE [g_hub EXCEPT !.active_notes[note].active = FALSE, !.num_active = @ - 1]
    /\ heard' = [heard EXCEPT !.op = "note_off", !.midi = @ + 1]
    /\ UNCHANGED air
    /\ HubIdle

\* hub_process_drive_notes
HubProcessDriveNotes ==
    LET s == DriveNotes([hub |-> g_hub, tries |-> heard.poke_tries],
                        DefaultNote, DefaultNote + 1)
    IN  /\ heard.poke_tries < MaxPokeTries
        /\ g_hub' = s.hub
        /\ heard' = [heard EXCEPT !.op = "drive_notes", !.poke_tries = s.tries]
        /\ UNCHANGED air
        /\ HubIdle

\* hub_controller_init
InitHub ==
    /\ g_hub = [state |-> "IDLE", nodes |-> <<>>, discovery_attempts |-> 0, pokes_sent |-> 0,
              active_notes |-> [n \in HubNotes |-> NoNote], num_active |-> 0]
    /\ air = <<>>
    /\ heard = [op |-> "none", poke_tries |-> 0, midi |-> 0, lost |-> 0]

InitFw(trees) == build \in trees /\ InitConfig /\ InitPoke /\ InitHub

\* ------------------------------------------------- ModalAttractorsEngine.cpp
\* VoiceAllocator::noteOn as a function of the voices and the note table
noteOn(vs, map, bend, midi_note, velocity, ph) ==
    LET vel_normalized == (velocity * Scale) \div MaxVelocity
        existing_voice == ExistingVoice(map, midi_note)
        free == findFreeVoice(vs)
        stolen == IF free < 0 THEN stealOldestVoice(vs) ELSE -1
        voice == IF existing_voice >= 0 THEN existing_voice
                 ELSE IF free >= 0 THEN free ELSE stolen
        afterSteal == IF existing_voice < 0 /\ free < 0 /\ stolen >= 0
                      THEN [v \in Voices |-> IF v = stolen THEN VoiceReset(vs[v]) ELSE vs[v]]
                      ELSE vs
    IN  IF midi_note > MaxMidiNote \/ voice < 0 THEN [voices |-> vs, note_to_voice |-> map]
        ELSE [voices |-> [v \in Voices |->
                            IF v = voice
                            THEN VoiceSetPitchBend(
                                     VoiceNoteOn(afterSteal[v], midi_note, vel_normalized, ph),
                                     bend)
                            ELSE afterSteal[v]],
              note_to_voice |-> IF existing_voice < 0
                                THEN [n \in DOMAIN map |-> IF n = midi_note THEN voice
                                                           ELSE map[n]]
                                ELSE map]

\* VoiceAllocator::updateVoices as a function of the voices
updateVoices(init, vs, ph) ==
    IF ~init THEN vs
    ELSE [v \in Voices |-> IF isActive(vs[v]) THEN updateModal(vs[v], ph) ELSE vs[v]]

\* TopologyEngine::updateCoupling as a function of the voices
updateCoupling(vs, n, m, strength) ==
    IF n # NumVoices THEN vs ELSE CouplingLoop(vs, m, strength, 0, {}).voices

\* the mixing loop of VoiceAllocator::renderAudio from voice i on
RECURSIVE MixFrom(_, _, _, _, _)
MixFrom(vs, syn, num_frames, i, mix) ==
    IF i >= NumVoices THEN [synths |-> syn, out |-> mix]
    ELSE IF ~isActive(vs[i]) THEN MixFrom(vs, syn, num_frames, i + 1, mix)
    ELSE LET r == VoiceRenderAudio(vs[i], syn[i], num_frames)
         IN  MixFrom(vs, [v \in Voices |-> IF v = i THEN r.synth ELSE syn[v]], num_frames,
                     i + 1, [f \in 1..num_frames |-> mix[f] + r.out[f]])
\* VoiceAllocator::renderAudio: the synths afterwards and the frames written
\* to outL (outR receives the same)
renderAudio(init, vs, syn, num_frames) ==
    IF ~init THEN [synths |-> syn, out |-> Silence(num_frames)]
    ELSE MixFrom(vs, syn, num_frames, 0, Silence(num_frames))

\* the control tick of modal_attractors_engine_render: the voices are
\* stepped, then coupled
EngineTick(init, vs, n, m, strength, ph) ==
    updateCoupling(updateVoices(init, vs, ph), n, m, strength)
\* a tick that couples the voices and then steps them
EngineTick_coupled_first(init, vs, n, m, strength, ph) ==
    updateVoices(init, updateCoupling(vs, n, m, strength), ph)

\* the buffers VoiceAllocator::renderAudio takes from the heap in one call:
\* tempL and tempR
renderAudio_allocations(init) == IF ~init THEN 0 ELSE 2
\* the blocks modal_attractors_engine_render takes from the heap in one call:
\* the array of voice pointers, and what renderAudio takes
engine_render_allocations(e, init) ==
    IF ~e.initialized THEN 0 ELSE 1 + renderAudio_allocations(init)

\* modal_attractors_engine_render as a function of the engine and its parts
engine_render(e, init, vs, syn, n, m, strength, num_frames, ph) ==
    IF ~e.initialized
    THEN [voices |-> vs, synths |-> syn, outL |-> Silence(num_frames),
          outR |-> Silence(num_frames)]
    ELSE LET ticked == EngineTick(init, vs, n, m, strength, ph)
             r == renderAudio(init, ticked, syn, num_frames)
         IN  [voices |-> ticked, synths |-> r.synths,
              outL |-> [f \in 1..num_frames |-> Mul(r.out[f], e.master_gain)],
              outR |-> [f \in 1..num_frames |-> Mul(r.out[f], e.master_gain)]]

\* the notes played on the engine, the random phases of their kicks, and the
\* values the host gives the master gain
EngineNotes == {DefaultNote, DefaultNote + 1}
StrikePhases == {[k \in Modes |-> 1]}
MasterGains == {Scale}

\* modal_attractors_engine_init(engine, 48000, NumVoices)
EngineInit ==
    /\ ~engine.initialized
    /\ \E noise \in PoolNoise :
          voices' = [v \in Voices |->
                       VoiceSetPersonality(VoiceInitialize(NewVoice(noise)), "RESONATOR")]
    /\ synths' = [v \in Voices |-> audio_synth_init(SampleRate)]
    /\ note_to_voice' = [n \in Notes |-> -1]
    /\ pitch_bend' = 0
    /\ initialized' = TRUE
    /\ num_voices' = NumVoices
    /\ coupling_matrix' = normalizeMatrix(generateRing(clearMatrix(NumVoices), NumVoices),
                                          NumVoices)
    /\ coupling_strength' = (3 * Scale) \div 10
    /\ topology_type' = "Ring"
    /\ engine' = [initialized |-> TRUE, master_gain |-> (7 * Scale) \div 10,
                  topology_type |-> 0]
    /\ spent' = [spent EXCEPT !.last = "init"]
    /\ UNCHANGED <<calls, last, run, topology_param, generations, reads, outL, outR,
                   soloVars, fwVars>>

\* modal_attractors_engine_note_on
EngineNoteOn(note, velocity, ph) ==
    LET r == noteOn(voices, note_to_voice, pitch_bend, note, velocity, ph)
    IN  /\ engine.initialized
        /\ voices' = r.voices
        /\ note_to_voice' = r.note_to_voice
        /\ spent' = [spent EXCEPT !.notes = @ + 1, !.last = "note_on"]
        /\ UNCHANGED <<pitch_bend, initialized, calls, last, run, topoVars, engine, synths,
                       outL, outR, soloVars, fwVars>>

\* modal_attractors_engine_set_parameter, case kParam_MasterGain
EngineSetMasterGain(value) ==
    /\ engine.initialized
    /\ engine.master_gain # value
    /\ engine' = [engine EXCEPT !.master_gain = value]
    /\ spent' = [spent EXCEPT !.last = "set_parameter"]
    /\ UNCHANGED <<poolVars, topoVars, synths, outL, outR, soloVars, fwVars>>

\* modal_attractors_engine_set_parameter, case kParam_CouplingStrength; the
\* engine's copy of the value is read by the topology case only
EngineSetCouplingStrength(value) ==
    /\ engine.initialized
    /\ coupling_strength # value
    /\ coupling_strength' = value
    /\ spent' = [spent EXCEPT !.last = "set_parameter"]
    /\ UNCHANGED <<num_voices, coupling_matrix, topology_type, topology_param, generations,
                   reads, poolVars, engine, synths, outL, outR, soloVars, fwVars>>

\* the switch of the case kParam_Topology: the family an integer selects
TopologyOf(value) ==
    CASE value = 1 -> "SmallWorld"
      [] value = 2 -> "Clustered"
      [] value = 3 -> "HubSpoke"
      [] value = 4 -> "Random"
      [] value = 5 -> "Complete"
      [] value = 6 -> "None"
      [] OTHER -> "Ring"
\* the values written to the topology parameter: the seven of the
\* enumeration, and one on either side of them
TopologyValues == (-1)..7

\* modal_attractors_engine_set_parameter, case kParam_Topology; value is the
\* parameter converted to int
EngineSetTopology(value) ==
    /\ engine.initialized
    /\ engine' = [engine EXCEPT !.topology_type = value]
    /\ \E m \in Generated(TopologyOf(value), num_voices, topology_param) :
          coupling_matrix' = normalizeMatrix(m, num_voices)
    /\ topology_type' = TopologyOf(value)
    /\ spent' = [spent EXCEPT !.last = "set_topology"]
    /\ UNCHANGED <<num_voices, coupling_strength, topology_param, generations, reads,
                   poolVars, synths, outL, outR, soloVars, fwVars>>

\* modal_attractors_engine_render
EngineRender(num_frames, ph) ==
    LET r == engine_render(engine, initialized, voices, synths, num_voices, coupling_matrix,
                           coupling_strength, num_frames, ph)
    IN  /\ spent.renders < MaxRenders
        /\ voices' = r.voices
        /\ synths' = r.synths
        /\ outL' = r.outL
        /\ outR' = r.outR
        /\ spent' = [spent EXCEPT !.renders = @ + 1, !.last = "render",
                                  !.allocs = @ + engine_render_allocations(engine, initialized)]
        /\ UNCHANGED <<note_to_voice, pitch_bend, initialized, calls, last, run, topoVars,
                       engine, soloVars, fwVars>>

\* the engine struct zeroed, its parts not yet created
InitEngine ==
    /\ engine = [initialized |-> FALSE, master_gain |-> 0, topology_type |-> 0]
    /\ synths = [v \in Voices |-> IdleSynth]
    /\ outL = <<>>
    /\ outR = <<>>
    /\ spent = [notes |-> 0, renders |-> 0, last |-> "none", allocs |-> 0]

\* ------------------------------------------------------------------ systems
\* a voice pool, with the topology engine the plugin builds for it
Init ==
    InitPool /\ InitTopology(NumVoices) /\ InitSolo(PoolNoise, {IdleSynth}) /\ InitFw({"firmware"}) /\ InitEngine

Next ==
    \/ Initialize
    \/ \E n \in NoteInputs, v \in Velocities, ph \in PoolPhases : NoteOn(n, v, ph)
    \/ \E n \in NoteInputs : NoteOff(n)
    \/ AllNotesOff
    \/ \E p \in Personalities : SetPersonality(p)
    \/ \E ph \in PoolPhases : UpdateVoices(ph)

Spec == Init /\ [][Next]_vars

\* a topology engine of any of the sizes, beside an idle pool
InitTopo ==
    /\ InitPool /\ InitSolo(PoolNoise, {IdleSynth}) /\ InitFw({"firmware"}) /\ InitEngine
    /\ \E n \in TopoSizes : InitTopology(n)

NextTopo ==
    \/ \E type \in TopologyTypes, s \in Strengths : GenerateTopology(type, s)
    \/ \E s \in Strengths : SetCouplingStrength(s)
    \/ \E p \in TopoParams : SetTopologyParameter(p)

SpecTopo == InitTopo /\ [][NextTopo]_vars

\* the pool and its topology engine in a short session: notes are struck hard
\* and with either sign of the kick, then the voices are coupled
CouplingRoom == calls < MaxCouplingCalls

NextCoupling ==
    \/ CouplingRoom /\ Initialize
    \/ CouplingRoom /\ \E n \in Notes, ph \in CouplingPhases : NoteOn(n, MaxVelocity, ph)
    \/ CouplingRoom /\ \E ph \in PoolPhases : UpdateVoices(ph)
    \/ \E type \in TopologyTypes, s \in Strengths : GenerateTopology(type, s)
    \/ UpdateCoupling

SpecCoupling == Init /\ [][NextCoupling]_vars

\* a pool whose pitch bend and personality are set while notes are played
BroadcastRoom == calls < MaxBroadcastCalls

NextBroadcast ==
    \/ BroadcastRoom /\ Initialize
    \/ BroadcastRoom /\ \E n \in Notes, ph \in PoolPhases : NoteOn(n, MaxVelocity, ph)
    \/ BroadcastRoom /\ \E n \in Notes : NoteOff(n)
    \/ BroadcastRoom /\ \E b \in Bends : SetPitchBend(b)
    \/ BroadcastRoom /\ \E p \in Personalities : SetPersonality(p)
    \/ BroadcastRoom /\ \E ph \in PoolPhases : UpdateVoices(ph)

SpecBroadcast == Init /\ [][NextBroadcast]_vars

\* an engine whose parameters the host writes
NextEngineParams ==
    \/ EngineInit
    \/ /\ spent.notes < MaxStrikes
       /\ \E note \in EngineNotes, ph \in StrikePhases : EngineNoteOn(note, MaxVelocity, ph)
    \/ \E value \in TopologyValues : EngineSetTopology(value)
    \/ \E value \in Strengths : EngineSetCouplingStrength(value)
    \/ \E value \in MasterGains : EngineSetMasterGain(value)

SpecEngineParams == Init /\ [][NextEngineParams]_vars

\* a voice on its own: initialized, struck, stepped and rendered
NextVoice ==
    \/ SoloInitialize(SampleRate)
    \/ \E v \in SoloVelocities, ph \in SoloPhases : SoloNoteOn(DefaultNote - 3, v, ph)
    \/ SoloNoteOff
    \/ \E ph \in PoolPhases : SoloUpdateModal(ph)
    \/ SoloRenderAudio(RenderFrames)

InitVoice ==
    InitPool /\ InitTopology(NumVoices) /\ InitSolo(SoloNoise, UninitSynths) /\ InitFw({"firmware"}) /\ InitEngine

SpecVoice == InitVoice /\ [][NextVoice]_vars

\* a voice that is struck while it is free, released, and then ticked with no
\* further note event until it is free again
ReleaseRoom == calls < MaxReleaseCalls

NextRelease ==
    \/ ReleaseRoom /\ solo.state = "Inactive" /\ SoloInitialize(SampleRate)
    \/ /\ ReleaseRoom /\ solo.state = "Inactive"
       /\ \E p \in Personalities \ {solo.node.personality} : SoloSetPersonality(p)
    \/ /\ ReleaseRoom /\ solo.state = "Inactive"
       /\ \E ph \in PoolPhases : SoloNoteOn(DefaultNote, MaxVelocity, ph)
    \/ ReleaseRoom /\ solo.state \in {"Attack", "Sustain"} /\ SoloNoteOff
    \/ \E ph \in PoolPhases : ReleaseTick(ph)

SpecRelease ==
    Init /\ [][NextRelease]_vars /\ WF_vars(\E ph \in PoolPhases : ReleaseTick(ph))

\* a hub that discovers nodes, distributes a configuration, runs sessions and
\* reads MIDI notes
NextHub ==
    \/ HubStartDiscovery
    \/ \E mac \in NodeMacs : HubRecvHello(mac)
    \/ \E c \in Configs : HubSendConfig(c)
    \/ HubStartSession
    \/ HubStopSession
    \/ \E note \in HubNotes, channel \in MidiChannels : HubMidiNoteOn(note, MaxVelocity, channel)
    \/ \E note \in HubNotes : HubMidiNoteOff(note)
    \/ HubProcessDriveNotes
SpecHub == Init /\ [][NextHub]_vars

\* one discovery: the hub broadcasts HELLO once, and the radio delivers every
\* frame that it does not lose
NextDiscovery ==
    \/ g_hub.discovery_attempts = 0 /\ HubStartDiscovery
    \/ Deliver
    \/ LoseHello
SpecDiscovery == Init /\ [][NextDiscovery]_vars /\ WF_vars(Deliver)

\* a node that receives configurations from a hub over a link that may lose a
\* frame, alter a byte, or carry a frame of another sender
Trees == {"firmware", "firmware-debug"}
InitConfigSystem ==
    InitPool /\ InitTopology(NumVoices) /\ InitSolo(PoolNoise, {IdleSynth}) /\ InitFw(Trees) /\ InitEngine
NextConfig ==
    \/ \E c \in Configs : HubSendConfig(c)
    \/ Receive
    \/ Lose
    \/ \E p \in AlteredOffsets, bits \in AlteredBits : Alter(p, bits)
    \/ \E frame \in ForeignFrames : PeerSend(frame)
SpecConfig == InitConfigSystem /\ [][NextConfig]_vars

\* a transfer over a link that delivers chunks twice and alters them in between
NextRetransmit ==
    \/ \E c \in Configs : HubSendConfig(c)
    \/ Receive
    \/ Duplicate
    \/ \E p \in AlteredOffsets, bits \in AlteredBits : Alter(p, bits)
    \/ \E frame \in ForeignFrames : PeerSend(frame)
SpecRetransmit == InitConfigSystem /\ [][NextRetransmit]_vars

\* a node whose control task drains the poke queue the network callback fills
NextPoke ==
    \/ \E msg \in PokeMessages : RecvPoke(msg)
    \/ RecvStart
    \/ RecvStop
    \/ RecvReset
    \/ ControlTask
SpecPoke == Init /\ [][NextPoke]_vars

\* the same node with a control task that runs in every period, as
\* vTaskDelayUntil schedules it, and a few pokes
NextDrain ==
    \/ progress.pokes < MaxDrainPokes /\ \E msg \in PokeMessages : RecvPoke(msg)
    \/ RecvStart
    \/ RecvStop
    \/ ControlTaskDraining
SpecDrain == Init /\ [][NextDrain]_vars /\ WF_vars(ControlTaskDraining)

\* the plugin's engine: created, played and rendered
NextEngine ==
    \/ EngineInit
    \/ /\ spent.notes < MaxStrikes
       /\ \E note \in EngineNotes, ph \in StrikePhases : EngineNoteOn(note, MaxVelocity, ph)
    \/ \E value \in MasterGains : EngineSetMasterGain(value)
    \/ \E value \in Strengths : EngineSetCouplingStrength(value)
    \/ \E ph \in PoolPhases : EngineRender(RenderFrames, ph)
SpecEngine == Init /\ [][NextEngine]_vars

\* the engine with one note struck again and again
NextEngineLoud ==
    \/ EngineInit
    \/ /\ spent.notes < MaxLoudStrikes
       /\ \E ph \in StrikePhases : EngineNoteOn(DefaultNote, MaxVelocity, ph)
    \/ \E value \in MasterGains : EngineSetMasterGain(value)
    \/ \E ph \in PoolPhases : EngineRender(RenderFrames, ph)
SpecEngineLoud == Init /\ [][NextEngineLoud]_vars

\* ------------------------------------------------------------ voice pool
ValidNote(n) == n >= 0 /\ n <= MaxMidiNote
ActiveVoices(vs) == {v \in Voices : isActive(vs[v])}
\* the last call was a noteOn that passed the guard of VoiceAllocator::noteOn
NoteOnRan(call) == call.op = "noteOn" /\ call.was_init /\ ValidNote(call.note)

\* C1: every note whose entry in the note-to-voice table is a voice index
\* refers to an active voice whose assigned note is that note
C1_MappedNoteIsHeld ==
    initialized =>
        \A n \in Notes :
            note_to_voice[n] >= 0 =>
                /\ isActive(voices[note_to_voice[n]])
                /\ voices[note_to_voice[n]].midi_note = n

\* C2: after NumVoices + 1 consecutive noteOn calls with distinct notes on a
\* fresh pool, the last call got the voice of the first note, that voice plays
\* the last note, and the voices of the notes in between still play them
C2_FirstVoiceIsReassigned ==
    (run.ok /\ Len(run.calls) = NumVoices + 1) =>
        LET first == run.calls[1][2]
            newest == run.calls[NumVoices + 1]
        IN  /\ newest[2] = first
            /\ first >= 0
            /\ voices[first].midi_note = newest[1]
            /\ note_to_voice[newest[1]] = first
            /\ \A i \in 2..NumVoices :
                    /\ voices[run.calls[i][2]].midi_note = run.calls[i][1]
                    /\ isActive(voices[run.calls[i][2]])
                    /\ note_to_voice[run.calls[i][1]] = run.calls[i][2]

\* C3: on an initialized pool a noteOn for a note in 0..127 returns a voice
\* and leaves the note mapped to that voice, which is active
C3_NoteOnNeverFails ==
    NoteOnRan(last) =>
        /\ last.ret >= 0
        /\ note_to_voice[last.note] = last.ret
        /\ isActive(voices[last.ret])

\* the lowest-indexed voice among the active voices of greatest age
OldestActive(vs) ==
    CHOOSE i \in ActiveVoices(vs) :
        \A j \in ActiveVoices(vs) :
            vs[i].age > vs[j].age \/ (vs[i].age = vs[j].age /\ i <= j)

\* C4: a noteOn for an unmapped note when no voice is Inactive steals the
\* lowest-indexed voice of greatest age, resets it and gives it the new note
C4_StealsOldest ==
    [][(/\ NoteOnRan(last')
        /\ note_to_voice[last'.note] < 0
        /\ ActiveVoices(voices) = Voices)
       => LET v == OldestActive(voices)
          IN  /\ last'.stolen = v
              /\ last'.ret = v
              /\ <<v, voices[v].state, "Inactive", "reset">> \in last'.trans
              /\ voices'[v].state = "Attack"
              /\ voices'[v].midi_note = last'.note
              /\ voices'[v].age = 0]_vars

\* the voice a note's entry names, when that voice is active; -1 otherwise
HeldVoice(map, vs, n) ==
    IF n \in Notes /\ map[n] >= 0 /\ isActive(vs[map[n]]) THEN map[n] ELSE -1

\* C5: a noteOn for a note that maps to an active voice re-triggers that voice
\* (Attack, age 0, a fresh excitation of positive strength) and allocates
\* nothing: the table, the set of active voices and every other voice are
\* unchanged
C5_RetriggerSameVoice ==
    [][(NoteOnRan(last') /\ HeldVoice(note_to_voice, voices, last'.note) >= 0)
       => LET v == note_to_voice[last'.note]
          IN  /\ last'.ret = v
              /\ voices'[v].state = "Attack"
              /\ voices'[v].age = 0
              /\ voices'[v].midi_note = last'.note
              /\ voices'[v].node.excitation.active
              /\ voices'[v].node.excitation.elapsed_ms = 0
              /\ voices'[v].node.excitation.strength > 0
              /\ note_to_voice' = note_to_voice
              /\ ActiveVoices(voices') = ActiveVoices(voices)
              /\ \A u \in Voices \ {v} : voices'[u] = voices[u]]_vars

\* a held note in Sustain was re-triggered while the other voice was playing
C5_Retriggered ==
    /\ NoteOnRan(last)
    /\ last.existing >= 0
    /\ last.ret = last.existing
    /\ last.trans = {<<last.ret, "Sustain", "Attack", "noteOn">>}
    /\ voices[last.ret].age = 0
    /\ voices[last.ret].midi_note = last.note
    /\ ActiveVoices(voices) = Voices

\* C6: noteOff for a mapped note leaves its voice in Release and the note
\* unmapped; a noteOn for that note while the voice is releasing and another
\* voice is Inactive returns a different voice and leaves the releasing voice
\* as it was
C6_ReleaseFreesTheNote ==
    [][/\ (last'.op = "noteOff" /\ last'.existing >= 0)
          => /\ voices'[last'.existing].state = "Release"
             /\ note_to_voice'[last'.note] = -1
       /\ \A v \in Voices :
            (/\ NoteOnRan(last')
             /\ voices[v].state = "Release"
             /\ voices[v].midi_note = last'.note
             /\ note_to_voice[last'.note] < 0
             /\ ActiveVoices(voices) # Voices)
            => /\ last'.ret >= 0
               /\ last'.ret # v
               /\ voices'[v] = voices[v]]_vars

\* the lifecycle changes the state machine of a voice allows
AllowedChange(vs, t) ==
    LET from == t[2]
        to == t[3]
        cause == t[4]
    IN  \/ from = "Inactive" /\ to = "Attack" /\ cause = "noteOn"
        \/ from = "Sustain" /\ to = "Attack" /\ cause = "noteOn"
        \/ from = "Attack" /\ to = "Sustain" /\ cause = "updateState"
              /\ vs[t[1]].node.personality = "SELF_OSCILLATOR"
        \/ from \in {"Attack", "Sustain"} /\ to = "Release" /\ cause = "noteOff"
        \/ from = "Release" /\ to = "Inactive" /\ cause = "updateState"
        \/ to = "Inactive" /\ cause = "reset"

\* C7: every lifecycle change a call makes is an allowed one; in particular no
\* voice goes from Release to Attack or Sustain
C7_OnlyAllowedChanges ==
    \A t \in last.trans : AllowedChange(voices, t)

\* --------------------------------------------------------- topology engine
\* C10: after generateTopology, for every family and every size, each row of
\* the coupling matrix sums to 0 or to 1
C10_RowsSumToZeroOrOne ==
    \A i \in Rows(num_voices) :
        RowSum(coupling_matrix[i], num_voices) \in {RatZero, RatOne}

\* a clustered topology of two clusters was generated: the rows of the two
\* linked voices hold the inter-cluster weight, and both kinds of row sum to 1
C10_ClusteredGenerated ==
    /\ topology_type = "Clustered"
    /\ num_voices = 2 * DefaultClusterSize
    /\ RatPos(coupling_matrix[0][DefaultClusterSize])
    /\ coupling_matrix[0][DefaultClusterSize] # coupling_matrix[0][1]
    /\ RowSum(coupling_matrix[0], num_voices) = RatOne
    /\ RowSum(coupling_matrix[1], num_voices) = RatOne

\* C9: every mode-0 amplitude that updateCoupling reads for a voice's forcing
\* is the amplitude its neighbour held before the call
C9_ForcingFromSnapshot ==
    [][last'.op = "updateCoupling"
       => \A t \in reads' : t[3] = getMode0Amplitude(voices[t[2]])]_vars

\* ---------------------------------------------------------------- lone voice
\* some mode that sounds holds a non-zero amplitude
NonZeroAmplitude(node) ==
    \E k \in Modes :
        node.modes[k].active /\ node.modes[k].weight > 0 /\ node.modes[k].a # <<0, 0>>
\* some frame of a rendered block is not zero
NonSilent(frames) == \E f \in 1..Len(frames) : frames[f] # 0
\* the voice sounds: active, non-zero amplitude, and a block rendered since the
\* note was struck is not silent
Sounds ==
    /\ isActive(solo)
    /\ NonZeroAmplitude(solo.node)
    /\ out # <<>> => NonSilent(out)

C11_AppliedOnlyWhenComplete ==
    [][(fw'.event = "end" /\ fw'.applied) =>
          /\ \A i \in 0..(g_config_rx.num_chunks - 1) : i \in chunks_seen
          /\ protocol_crc32(g_config_rx.buffer, g_config_rx.total_size)
                = g_config_rx.expected_checksum]_vars

\* C12: when a transfer in progress ends with CFG_END and the configuration
\* is not applied, the node sends a negative acknowledgment and its session
\* configuration and node parameters stay as they were
C12_RejectedTransferNacked ==
    [][(g_config_rx.receiving /\ fw'.event = "end" /\ ~fw'.applied) =>
          /\ fw'.ack > 0
          /\ g_session' = g_session
          /\ g_node_cfg' = g_node_cfg]_vars

\* the offsets below size at which two byte images differ
Differences(a, b, size) ==
    {p \in DOMAIN a \cup DOMAIN b : p < size /\ Get(a, p) # Get(b, p)}
\* the node holds every chunk it expects and the CRC32 of what it holds is the
\* announced one
PassesCheck(rx) ==
    /\ rx.chunks_received = rx.num_chunks
    /\ protocol_crc32(rx.buffer, rx.total_size) = rx.expected_checksum
\* C13: a configuration the hub sent over a link that lost and altered
\* nothing is, at CFG_END, reassembled into exactly the bytes sent and passes
\* the CRC32 check; a reassembly that differs from the bytes sent in a single
\* byte does not pass it
C13_TransferRoundTrip ==
    [][(g_config_rx.receiving /\ fw'.event = "end") =>
          /\ (used.lost = 0 /\ used.altered = 0 /\ used.foreign = 0) =>
                 /\ Differences(g_config_rx.buffer, sent, SessionConfigSize) = {}
                 /\ g_config_rx.total_size = SessionConfigSize
                 /\ PassesCheck(g_config_rx)
          /\ Cardinality(Differences(g_config_rx.buffer, sent, g_config_rx.total_size)) = 1
                 => ~PassesCheck(g_config_rx)]_vars

\* --------------------------------------------------------------- poke queue
\* C14: the poke queue never holds more than 16 events; a poke that arrives
\* while it is full is dropped, the queued pokes stay as they were, and the
\* producer can always take its step, full queue or not
C14_QueueBoundedDropNewest ==
    /\ [](Len(g_poke_queue) <= QUEUE_LENGTH)
    /\ [][(progress'.pokes = progress.pokes + 1 /\ Len(g_poke_queue) = QUEUE_LENGTH) =>
            /\ g_poke_queue' = g_poke_queue
            /\ dropped' = dropped \cup {progress'.pokes}
            /\ applied' = applied]_vars
    /\ [](progress.pokes < MaxPokes => ENABLED (\E msg \in PokeMessages : RecvPoke(msg)))
\* a poke arrived at a full queue and was dropped
C14_DroppedOnFull ==
    /\ progress.last = "poke"
    /\ Len(g_poke_queue) = QUEUE_LENGTH
    /\ progress.pokes \in dropped

\* C15: each POKE message received is applied to the node at most once, and a
\* poke dropped on a full queue is never applied
C15_AppliedAtMostOnce ==
    /\ \A i, j \in DOMAIN applied : applied[i] = applied[j] => i = j
    /\ \A i \in DOMAIN applied : applied[i] \notin dropped
    /\ \A i \in DOMAIN applied : applied[i] \in 1..progress.pokes
\* a poke was dropped and the control task went on applying queued pokes
C15_AppliedAfterDrop ==
    /\ dropped # {}
    /\ progress.last = "tick"
    /\ Len(applied) >= 3

\* -------------------------------------------------------------------- engine
\* the last call on the engine was a render of an initialized engine
EngineRendered == spent.last = "render" /\ engine.initialized

\* C19: every sample a render writes to either channel lies in [-1, 1]
C19_SamplesInRange ==
    /\ \A f \in DOMAIN outL : Abs(outL[f]) <= Scale
    /\ \A f \in DOMAIN outR : Abs(outR[f]) <= Scale

\* C16: in the control tick of a render the voices are coupled before they
\* are stepped
C16_CouplingBeforeStep ==
    [][\A ph \in PoolPhases :
          (engine.initialized /\ spent'.renders = spent.renders + 1
              /\ EngineRender(RenderFrames, ph)) =>
              voices' = EngineTick_coupled_first(initialized, voices, num_voices,
                                                 coupling_matrix, coupling_strength, ph)]_vars

\* the voices after count control ticks
RECURSIVE Ticks(_, _, _)
Ticks(vs, count, ph) ==
    IF count = 0 THEN vs
    ELSE Ticks(EngineTick(initialized, vs, num_voices, coupling_matrix, coupling_strength, ph),
               count - 1, ph)
\* the voices after num_frames frames rendered in one call
AfterRender(vs, num_frames, ph) ==
    engine_render(engine, initialized, vs, synths, num_voices, coupling_matrix,
                  coupling_strength, num_frames, ph).voices
\* C17: rendering a number of frames in one call advances the modal state by
\* as many control ticks as rendering them in two calls, and by the number of
\* control periods the frames span
C17_TicksFollowFrames ==
    [][\A ph \in PoolPhases :
          (engine.initialized /\ spent'.renders = spent.renders + 1
              /\ EngineRender(RenderFrames, ph)) =>
              /\ \A n1 \in 1..(RenderFrames - 1) :
                     voices' = AfterRender(AfterRender(voices, n1, ph), RenderFrames - n1, ph)
              /\ voices' = Ticks(voices, (RenderFrames * CONTROL_RATE_HZ) \div SampleRate,
                                 ph)]_vars

\* where a block of RenderFrames frames is split: after its first frame, after
\* a quarter of it (as 128 + 384), and before its last frame
SplitPoints == {1, RenderFrames \div 4, RenderFrames - 1}
\* VoiceAllocator::renderAudio called for n1 frames and then for n2 frames:
\* the synths afterwards and the frames written by the two calls
SplitRender(init, vs, syn, n1, n2) ==
    LET first == renderAudio(init, vs, syn, n1)
    IN  IF Len(first.out) # n1 THEN first
        ELSE LET second == renderAudio(init, vs, first.synths, n2)
             IN  [synths |-> second.synths, out |-> first.out \o second.out]

\* C18: with the modal state held fixed, rendering n1 frames and then n2
\* frames gives the samples, the phase accumulators and the smoothed
\* amplitudes that rendering n1 + n2 frames in one call gives
C18_SplitRenderSameSamples ==
    [][\A ph \in PoolPhases :
          (engine.initialized /\ spent'.renders = spent.renders + 1
              /\ EngineRender(RenderFrames, ph)) =>
              \A n1 \in SplitPoints :
                  SplitRender(initialized, voices', synths, n1, RenderFrames - n1)
                      = renderAudio(initialized, voices', synths, RenderFrames)]_vars
\* a render wrote samples of a sounding voice and advanced its phases
C18_RenderedSounding ==
    /\ EngineRendered
    /\ \E f \in DOMAIN outL : outL[f] # 0
    /\ \E v \in Voices : \E k \in Modes :
          synths[v].phase_accumulator[k] # 0 /\ synths[v].amplitude_smooth[k] # 0

\* C20: a render while the renderer was never initialized writes 0 to every
\* frame
C20_SilentWhenNotInitialized ==
    [][((~solo.node.running \/ ~synth.initialized \/ synth.muted)
           /\ solo' = solo /\ calls' = calls + 1 /\ Len(out') = RenderFrames
           /\ SoloRenderAudio(RenderFrames)) =>
          out' = Silence(RenderFrames)]_vars

\* ------------------------------------------------------- broadcast setters
\* the mode frequencies a voice plays its note with under a pitch bend
BentOmega(voice, bend) ==
    LET base_freq == midi_to_freq(voice.midi_note + 2 * bend)
    IN  <<freq_to_omega(base_freq), freq_to_omega((base_freq * 101) \div 100),
          freq_to_omega(base_freq * 2), freq_to_omega(base_freq * 3)>>

\* C24 as stated: every voice of the pool, Inactive ones included, holds the
\* pitch bend that was set last
C24_EveryVoiceHoldsBend == \A v \in Voices : voices[v].pitch_bend = pitch_bend

\* C24: every voice, Inactive ones included, holds the personality that was
\* set last; every active voice holds the pitch bend that was set last; and
\* a voice that noteOn allocates or re-triggers plays its note at the
\* frequencies of the pool's pitch bend
C24_ActiveVoicesHoldBend ==
    /\ [](\A v, w \in Voices : voices[v].node.personality = voices[w].node.personality)
    /\ [](last.op = "setPersonality" =>
            \A v \in Voices : voices[v].node.personality = last.value)
    /\ [](\A v \in Voices : isActive(voices[v]) => voices[v].pitch_bend = pitch_bend)
    /\ [][(last'.op = "noteOn" /\ calls' = calls + 1 /\ last'.ret >= 0) =>
            /\ voices'[last'.ret].pitch_bend = pitch_bend
            /\ [k \in Modes |-> voices'[last'.ret].node.modes[k].omega]
                  = BentOmega(voices'[last'.ret], pitch_bend)
            /\ voices'[last'.ret].node.personality = voices[last'.ret].node.personality]_vars
\* a voice that was Inactive when the bend and the personality were set was
\* allocated afterwards, beside an Inactive voice that holds an older bend
C24_AllocatedAfterSetters ==
    /\ last.op = "noteOn"
    /\ last.ret >= 0
    /\ last.free = last.ret
    /\ pitch_bend # 0
    /\ voices[last.ret].node.personality = "SELF_OSCILLATOR"
    /\ \E v \in Voices : ~isActive(voices[v]) /\ voices[v].pitch_bend # pitch_bend

\* C25: a write of the topology parameter with a value that is none of 0..6
\* is ignored: the coupling matrix and the topology type stay as they were
C25_BadTopologyIgnored ==
    [][(spent'.last = "set_topology" /\ engine'.topology_type \notin 0..6) =>
          /\ coupling_matrix' = coupling_matrix
          /\ topology_type' = topology_type]_vars

\* C21: a render call on an initialized engine takes nothing from the heap
C21_RenderAllocatesNothing ==
    [][(engine.initialized /\ spent'.renders = spent.renders + 1) =>
          spent'.allocs = spent.allocs]_vars

\* ------------------------------------------------------------ firmware node
\* the complex amplitudes of a node's modes
Amplitudes(node) == [k \in Modes |-> node.modes[k].a]

C23_StoppedNodeStillStepped ==
    [][(progress.halted /\ progress'.last = "tick" /\ progress'.ticks = progress.ticks + 1) =>
          g_node'.step_count = g_node.step_count + 1]_vars


\* C26: a poke the control task applies leaves the envelope active with elapsed
\* time 0 whatever the envelope was before (a running node then steps it once, to
\* one control period); a step of a running node without a poke advances an
\* active envelope by one control period and ends it at the first step where
\* elapsed >= duration; an inactive envelope stays as it is and the step adds
\* no forcing to any mode.
C26_EnvelopeLifecycle ==
    /\ [](g_node.excitation.active => g_node.excitation.elapsed_ms < g_node.excitation.duration_ms)
    /\ [][(progress'.last = "tick" /\ progress'.ticks = progress.ticks + 1) =>
            LET exc == g_node.excitation
                after == g_node'.excitation
                poked == Len(applied') = Len(applied) + 1
            IN  /\ (poked /\ ~g_node.running) =>
                      after.active /\ after.elapsed_ms = 0
                /\ (poked /\ g_node.running) =>
                      /\ after.elapsed_ms = CONTROL_DT_MS
                      /\ after.active = (CONTROL_DT_MS < after.duration_ms)
                /\ (~poked /\ g_node.running /\ exc.active) =>
                      /\ after.elapsed_ms = exc.elapsed_ms + CONTROL_DT_MS
                      /\ after.active = (after.elapsed_ms < after.duration_ms)
                /\ (~poked /\ ~exc.active) =>
                      /\ after = exc
                      /\ g_node.running =>
                            g_node'.modes =
                                [k \in Modes |->
                                    StepMode(g_node.personality, [exc EXCEPT !.strength = 0],
                                             g_node.modes[k], PokePhases[k])]]_vars
\* a second poke restarted a running envelope, which then ran out and was stepped
\* once more
C26_RepokedEnvelopeExpired ==
    /\ progress.last = "tick"
    /\ Len(applied) = 2
    /\ g_node.step_count = MaxTicks
    /\ ~g_node.excitation.active
    /\ g_node.excitation.elapsed_ms = g_node.excitation.duration_ms


\* C27: a tick of updateVoices moves a voice in Attack to Sustain exactly when its
\* personality is SelfOscillator and leaves a Resonator voice in Attack; a
\* Resonator voice in Attack leaves Attack only in a noteOff or a noteOn.
C27_AttackToSustainIffSelfOscillator ==
    /\ [][(last'.op = "updateVoices" /\ calls' = calls + 1) =>
            \A v \in Voices :
               voices[v].state = "Attack" =>
                  voices'[v].state = IF voices[v].node.personality = "SELF_OSCILLATOR"
                                     THEN "Sustain" ELSE "Attack"]_vars
    /\ [][\A v \in Voices :
             (/\ voices[v].state = "Attack"
              /\ voices[v].node.personality = "RESONATOR"
              /\ voices'[v].state # "Attack") => last'.op \in {"noteOff", "noteOn"}]_vars
\* a voice that stayed in Attack over a tick as a Resonator has moved to Sustain in
\* the tick after it became a SelfOscillator
C27_SustainAfterResonatorTicks ==
    /\ last.op = "updateVoices"
    /\ last.trans # {}
    /\ \E v \in Voices : voices[v].state = "Sustain" /\ voices[v].age >= 2


\* C28: a noteOn for a note that has no voice, while some voice is Inactive, takes
\* the lowest-indexed Inactive voice, maps the note to it, and changes no other
\* voice and no other note's entry.
C28_LowestInactiveVoiceTaken ==
    [][(/\ last'.op = "noteOn" /\ calls' = calls + 1
        /\ initialized
        /\ last'.note \in DOMAIN note_to_voice
        /\ note_to_voice[last'.note] < 0
        /\ \E v \in Voices : voices[v].state = "Inactive") =>
          \A v \in Voices :
             (/\ voices[v].state = "Inactive"
              /\ \A w \in Voices : w < v => voices[w].state # "Inactive") =>
                /\ last'.ret = v
                /\ voices'[v].state = "Attack"
                /\ voices'[v].midi_note = last'.note
                /\ note_to_voice'[last'.note] = v
                /\ \A w \in Voices \ {v} : voices'[w] = voices[w]
                /\ \A n \in DOMAIN note_to_voice \ {last'.note} :
                      note_to_voice'[n] = note_to_voice[n]]_vars
\* a new note took voice 1 because voice 0 was playing
C28_SecondVoiceTaken ==
    /\ last.op = "noteOn"
    /\ last.existing < 0
    /\ last.free = 1
    /\ last.ret = 1
    /\ isActive(voices[0])
    /\ voices[1].state = "Attack"
    /\ note_to_voice[last.note] = 1


\* the ring neighbours of row r
RingNeighbours(r, n) == {(r - 1 + n) % n, (r + 1) % n}

Masked(vs, amp) ==
    [v \in Voices |-> IF isActive(vs[v]) THEN vs[v]
                      ELSE [vs[v] EXCEPT !.node.modes[1].a = amp]]

\* C30: updateCoupling changes the mode-0 amplitude of active voices and nothing
\* else: every Inactive voice, the other modes, the lifecycle states, the ages,
\* the note table and the topology are as before, and the voices come out the
\* same whatever amplitude the Inactive voices hold.
C30_OnlyMode0OfActiveVoices ==
    [][(last'.op = "updateCoupling" /\ calls' = calls + 1) =>
          /\ \A v \in Voices :
                /\ ~isActive(voices[v]) => voices'[v] = voices[v]
                /\ voices'[v] = [voices[v] EXCEPT
                                   !.node.modes[1].a = voices'[v].node.modes[1].a]
          /\ UNCHANGED <<note_to_voice, pitch_bend, initialized, num_voices, coupling_matrix,
                         coupling_strength, topology_type, topology_param>>
          /\ num_voices = NumVoices =>
                \A v \in Voices :
                   isActive(voices[v]) =>
                      voices'[v] = CouplingLoop(Masked(voices, <<Scale, Scale>>),
                                                coupling_matrix, coupling_strength, 0,
                                                {}).voices[v]]_vars
\* updateCoupling has changed the amplitude of a voice
C30_VoiceForced ==
    /\ last.op = "updateCoupling"
    /\ last.value = "forced"
    /\ reads # {}


\* C31: one updateCoupling adds to mode 0 of an active voice dt times the sum,
\* over its active neighbours with a positive weight, of
\* |a_j - a_i| * weight[i][j] * coupling_strength, and no other factor; stated
\* for the first active voice, whose neighbours are read before any is forced.
C31_ForcingTimesDtOnly ==
    [][(last'.op = "updateCoupling" /\ calls' = calls + 1 /\ num_voices = NumVoices) =>
          \A v \in Voices :
             (/\ isActive(voices[v])
              /\ voices[v].node.modes[1].active
              /\ \A w \in Voices : w < v => ~isActive(voices[w])) =>
                voices'[v].node.modes[1].a =
                    CAdd(voices[v].node.modes[1].a,
                         <<(CouplingInput(voices, coupling_matrix, coupling_strength, v, 0)
                               * CONTROL_DT_MS) \div 1000, 0>>)]_vars


\* C32: while a transfer is in progress, a chunk whose index was already
\* received since CFG_BEGIN changes nothing of the reception state: the buffer,
\* the chunk bitmap and chunks_received are as before, whatever bytes the
\* chunk carries.
C32_RepeatedChunkIsNoOp ==
    [][(/\ g_config_rx.receiving
        /\ fw'.idx >= 0
        /\ fw'.idx \in chunks_seen
        /\ fw'.event \notin {"rejected", "none"}) =>
          /\ g_config_rx' = g_config_rx
          /\ g_session' = g_session
          /\ g_node_cfg' = g_node_cfg
          /\ acks' = acks]_vars
\* a chunk has arrived a second time, altered on the way, in a transfer that
\* still misses chunks
C32_AlteredChunkRepeated ==
    /\ fw.event = "duplicate"
    /\ used.altered > 0
    /\ g_config_rx.receiving
    /\ fw.idx \in g_config_rx.chunk_bitmap
    /\ g_config_rx.chunks_received < g_config_rx.num_chunks
    /\ Differences(g_config_rx.buffer, sent, g_config_rx.chunks_received * CHUNK_DATA_SIZE) = {}


\* C36: while a transfer is in progress, chunks_received is the number of
\* distinct chunk indices in 0..num_chunks-1 that arrived since CFG_BEGIN, and a
\* chunk whose index is at or beyond num_chunks is neither counted nor marked
\* as stored.
C36_CountsChunksInRange ==
    g_config_rx.receiving =>
        /\ g_config_rx.chunks_received =
              Cardinality(chunks_seen \cap 0..(g_config_rx.num_chunks - 1))
        /\ g_config_rx.chunk_bitmap \subseteq 0..(g_config_rx.num_chunks - 1)


\* C39: a well-formed frame of a type the node's receive handler dispatches on
\* is accepted by protocol_parse_message and reaches its handler; the frames
\* delivered here are POKE, START, STOP and RESET.
C39_DispatchedFrameAccepted == progress.last # "rejected"


\* C40: the control task applies at most one poke per period, and every poke
\* that is in the queue is applied in the end, whether the node runs or is
\* stopped.
C40_QueuedPokeApplied ==
    /\ [][Len(applied') <= Len(applied) + 1]_vars
    /\ \A id \in 1..MaxDrainPokes :
          (\E i \in 1..Len(g_poke_queue) : g_poke_queue[i].id = id)
              ~> (\E i \in 1..Len(applied) : applied[i] = id)
\* a poke was applied in a period that found the node stopped
C40_AppliedWhileStopped ==
    /\ progress.last = "tick"
    /\ progress.halted
    /\ ~g_node.running
    /\ g_poke_queue = <<>>
    /\ Len(applied) = MaxDrainPokes
    /\ g_node.excitation.active
    /\ g_node.excitation.elapsed_ms = 0


\* C34: noteOff(n) changes the lifecycle state only of a voice that plays the
\* note n; a voice that plays another note is never moved to Release by it.
C34_NoteOffReleasesOnlyItsNote ==
    [][(last'.op = "noteOff" /\ calls' = calls + 1) =>
          \A v \in Voices :
             voices'[v].state # voices[v].state => voices[v].midi_note = last'.note]_vars


\* C35: a voice that has entered Release and receives no further note event
\* is Inactive after finitely many ticks, whichever personality it has.
C35_ReleasedVoiceFreed == (solo.state = "Release") ~> (solo.state = "Inactive")


\* C33: the hub hands a POKE to the network only while it is RUNNING, it enters
\* RUNNING only in hub_start_session and from READY, and it is READY or
\* RUNNING only after a configuration has been distributed.
C33_PokeOnlyWhileRunning ==
    /\ [][heard'.poke_tries # heard.poke_tries => g_hub.state = "RUNNING"]_vars
    /\ [][(g_hub'.state = "RUNNING" /\ g_hub.state # "RUNNING") =>
             (g_hub.state = "READY" /\ heard'.op = "start_session")]_vars
    /\ [](g_hub.state \in {"READY", "RUNNING"} => used.transfers > 0)
C33_NotePokedInSession ==
    /\ g_hub.state = "RUNNING" /\ heard.op = "note_on" /\ heard.poke_tries > 0
    /\ Len(g_hub.nodes) > 1 /\ \A i \in 1..Len(g_hub.nodes) : g_hub.nodes[i].configured
    /\ g_hub.discovery_attempts > 0

\* C37: after one HELLO broadcast of the hub, with two nodes in range, only
\* finitely many HELLO messages are sent: from some point on the air is empty.
C37_DiscoveryQuiesces == <>[](air = <<>>)

\* C38: the hub's registry holds at most one entry per MAC address.
C38_OneEntryPerMac ==
    \A i, j \in 1..Len(g_hub.nodes) :
       g_hub.nodes[i].mac_address = g_hub.nodes[j].mac_address => i = j

====
